---------------------------- MODULE Spec2Model ----------------------------
(***************************************************************************)
(* Seed phrase recovery tool: the combination generator (create.ts), the   *)
(* helpers it uses (helpers.ts), the progress tracker (progress.ts) and    *)
(* the worker manager (manager.ts) with its workers (worker.ts).           *)
(*                                                                         *)
(* Words are sequences of one-letter strings, so that the string           *)
(* operations of the source (startsWith, String.prototype.includes, join)  *)
(* are computed on characters and not on opaque word identities.           *)
(***************************************************************************)
EXTENDS Integers, Sequences, FiniteSets, TLC

(***************************************************************************)
(* Bounds of the model.                                                    *)
(***************************************************************************)
\* number of words of the (BIP-39) word list that the model keeps
NumWords == 3
\* largest phrase length (number of slots of a partial mnemonic)
MaxSlots == 2
\* the longest phrase handed to the generator alone
MaxPhrase == 3
\* largest options.chunkSize
MaxChunkSize == 2
\* largest options.numWorkers
MaxWorkers == 2
\* largest options.resumeFromIndex handed to the first execution
MaxResume == 2

(***************************************************************************)
(* Values of the source language.                                          *)
(***************************************************************************)
\* JavaScript's undefined, where a bigint or a number is expected
Undefined == -1

\* how a call ends: with a value, or with an exception
Returns(value) == [threw |-> FALSE, value |-> value]

Throws == [threw |-> TRUE, value |-> 0]

\* the word list in word list order; the model keeps its first NumWords words.
\* "ab" is a word and a proper prefix of "abc"; "ab" is a substring of "cab".
MasterWordList ==
    << <<"a", "b">>, <<"a", "b", "c">>, <<"b", "a">>, <<"c", "a", "b">>,
       <<"c", "b">>, <<"c", "c">> >>

wordList == SubSeq(MasterWordList, 1, NumWords)

Range(s) == {s[i] : i \in 1..Len(s)}

\* Array.prototype.includes
ArrayIncludes(arr, x) == \E i \in 1..Len(arr) : arr[i] = x

\* String.prototype.startsWith
StartsWith(w, p) == Len(p) <= Len(w) /\ SubSeq(w, 1, Len(p)) = p

\* String.prototype.includes: needle occurs in hay as a substring
StringIncludes(hay, needle) ==
    \E i \in 0..(Len(hay) - Len(needle)) :
        SubSeq(hay, i + 1, i + Len(needle)) = needle

RECURSIVE Join(_)
\* Array.prototype.join(' ')
Join(strs) ==
    IF Len(strs) = 0 THEN <<>>
    ELSE IF Len(strs) = 1 THEN strs[1]
    ELSE strs[1] \o <<" ">> \o Join(Tail(strs))

RECURSIVE Product(_)
Product(ns) == IF Len(ns) = 0 THEN 1 ELSE ns[1] * Product(Tail(ns))

(***************************************************************************)
(* Slots of a PartialWithCandidates: a string (fixed word), an array of    *)
(* candidate words, or undefined.                                          *)
(***************************************************************************)
FixedSlot(w) == [kind |-> "string", word |-> w, list |-> <<>>]
ArraySlot(l) == [kind |-> "array", word |-> <<>>, list |-> l]
UndefinedSlot == [kind |-> "undefined", word |-> <<>>, list |-> <<>>]

\* tokens of a PartialMnemonic: a string or undefined
StringToken(s) == [isString |-> TRUE, s |-> s]
UndefinedToken == [isString |-> FALSE, s |-> <<>>]

\* mutant of ResolveToken: the prefix matches are taken before the word itself
ResolveTokenByPrefixOnly(word) == IF ~word.isString \/ Len(SelectSeq(wordList, LAMBDA w : StartsWith(w, word.s))) = 0 THEN UndefinedSlot ELSE IF Len(SelectSeq(wordList, LAMBDA w : StartsWith(w, word.s))) = 1 THEN FixedSlot(SelectSeq(wordList, LAMBDA w : StartsWith(w, word.s))[1]) ELSE ArraySlot(SelectSeq(wordList, LAMBDA w : StartsWith(w, word.s)))

\* one iteration of the loop of createPartialWithCandidates
ResolveToken(word) ==
    IF word.isString
    THEN IF ArrayIncludes(wordList, word.s)
         THEN FixedSlot(word.s)
         ELSE LET candidatesStartsWithWord ==
                      SelectSeq(wordList, LAMBDA w : StartsWith(w, word.s))
              IN  IF Len(candidatesStartsWithWord) = 0 THEN UndefinedSlot
                  ELSE IF Len(candidatesStartsWithWord) = 1
                       THEN FixedSlot(candidatesStartsWithWord[1])
                       ELSE ArraySlot(candidatesStartsWithWord)
    ELSE UndefinedSlot

createPartialWithCandidates(partialMnemonic) ==
    [i \in 1..Len(partialMnemonic) |-> ResolveToken(partialMnemonic[i])]

\* the tokens a user types: words, prefixes of words, a string that matches
\* nothing, and the missing word
Tokens ==
    {StringToken(wordList[i]) : i \in 1..Len(wordList)}
        \cup {StringToken(<<"a">>), StringToken(<<"b">>), StringToken(<<"c">>),
              StringToken(<<"b", "b">>), UndefinedToken}

RECURSIVE SeqsUpTo(_, _)
\* the sequences over S of length 1..n
SeqsUpTo(S, n) ==
    IF n = 0 THEN {}
    ELSE LET shorter == SeqsUpTo(S, n - 1)
         IN  {<<x>> : x \in S} \cup shorter
                 \cup {Append(s, x) : s \in shorter, x \in S}

\* the resolved phrases of the model
Partials ==
    {createPartialWithCandidates(p) : p \in SeqsUpTo(Tokens, MaxPhrase)}

(***************************************************************************)
(* helpers.ts                                                              *)
(***************************************************************************)
\* the slots that are not a string, left to right: the k-th is the k-th
\* unknown position, with its candidate list when it has one
getMissingPositionsAndCandidates(partialWithCandidates) ==
    SelectSeq(partialWithCandidates, LAMBDA s : s.kind # "string")

\* candidateLists[depth] || wordList (depth counted from 0)
Candidates(partialWithCandidates, depth) ==
    LET slot == getMissingPositionsAndCandidates(partialWithCandidates)[depth + 1]
    IN  IF slot.kind = "array" THEN slot.list ELSE wordList

NumMissing(partialWithCandidates) ==
    Len(getMissingPositionsAndCandidates(partialWithCandidates))

RECURSIVE MapSlots(_, _, _, _)
\* the .map callback of getPartialMnemonicWithMissingWords over the slots from
\* position i on, with the closure variable wordIndex
MapSlots(partialWithCandidates, missingWords, wordsToUse, st) ==
    IF st.i > Len(partialWithCandidates) THEN <<>>
    ELSE LET word == partialWithCandidates[st.i]
         IN  IF word.kind = "string"
             THEN <<word.word>> \o
                  MapSlots(partialWithCandidates, missingWords, wordsToUse,
                           [i |-> st.i + 1, wordIndex |-> st.wordIndex])
             ELSE IF st.wordIndex < wordsToUse
                  THEN <<missingWords[st.wordIndex + 1]>> \o
                       MapSlots(partialWithCandidates, missingWords, wordsToUse,
                                [i |-> st.i + 1, wordIndex |-> st.wordIndex + 1])
                  ELSE <<(<<"*">>)>> \o
                       MapSlots(partialWithCandidates, missingWords, wordsToUse,
                                [i |-> st.i + 1, wordIndex |-> st.wordIndex])

\* mutant of getPartialMnemonicWithMissingWords: the Fixed words are left out
getPartialMnemonicOfMissingWordsOnly(partialWithCandidates, missingWords, wordsToUse) ==
    Join(SubSeq(missingWords, 1, wordsToUse))

\* the phrase as one string, unknown positions beyond wordsToUse as '*'
getPartialMnemonicWithMissingWords(partialWithCandidates, missingWords, wordsToUse) ==
    Join(MapSlots(partialWithCandidates, missingWords, wordsToUse,
                  [i |-> 1, wordIndex |-> 0]))

\* element n (counted from 1) of a JavaScript array as join() prints it: a
\* missing element is the empty string
ElementOrEmpty(arr, n) == IF n \in 1..Len(arr) THEN arr[n] ELSE <<>>

\* mutant of FullMnemonicWords: wordIndex advances on every slot
FullMnemonicWordsByPosition(partialWithCandidates, combinationsOfCandidates) == [i \in 1..Len(partialWithCandidates) |-> IF partialWithCandidates[i].kind = "string" THEN partialWithCandidates[i].word ELSE ElementOrEmpty(combinationsOfCandidates, i)]

\* the .map of getFullMnemonicFromCandidates: a string slot keeps its word,
\* the k-th other slot takes the k-th word of the combination
FullMnemonicWords(partialWithCandidates, combinationsOfCandidates) ==
    [i \in 1..Len(partialWithCandidates) |->
        IF partialWithCandidates[i].kind = "string"
        THEN partialWithCandidates[i].word
        ELSE ElementOrEmpty(
                 combinationsOfCandidates,
                 Cardinality({j \in 1..i :
                                 partialWithCandidates[j].kind # "string"}))]

getFullMnemonicFromCandidates(partialWithCandidates, combinationsOfCandidates) ==
    Join(FullMnemonicWords(partialWithCandidates, combinationsOfCandidates))

RECURSIVE FallingProduct(_, _)
\* new Array(n).fill(0).reduce((acc, _, i) => acc * BigInt(from - i), 1n)
FallingProduct(from, n) ==
    IF n = 0 THEN 1 ELSE FallingProduct(from, n - 1) * (from - (n - 1))

RECURSIVE Power(_, _)
Power(b, e) == IF e = 0 THEN 1 ELSE b * Power(b, e - 1)

\* mutant of getUpperBound: only the string slots lower the word count
getUpperBoundLoweredByStrings(partialWithCandidates, repeatingWords) ==
    LET numberMissing ==
            Len(SelectSeq(partialWithCandidates, LAMBDA w : w.kind = "undefined"))
        partials == SelectSeq(partialWithCandidates, LAMBDA w : w.kind = "array")
        sizes == [i \in 1..Len(partials) |-> Len(partials[i].list)]
        loweredAllWords ==
            NumWords - Len(SelectSeq(partialWithCandidates,
                                     LAMBDA w : w.kind = "string"))
    IN  IF repeatingWords
        THEN Power(NumWords, numberMissing) * Product(sizes)
        ELSE Product(sizes) * FallingProduct(loweredAllWords, numberMissing)

\* mutant of getUpperBound: the repeating branch uses the lowered word count
getUpperBoundLoweredWhenRepeating(partialWithCandidates, repeatingWords) ==
    LET numberMissing ==
            Len(SelectSeq(partialWithCandidates, LAMBDA w : w.kind = "undefined"))
        partials == SelectSeq(partialWithCandidates, LAMBDA w : w.kind = "array")
        sizes == [i \in 1..Len(partials) |-> Len(partials[i].list)]
        loweredAllWords ==
            NumWords - (Len(partialWithCandidates) - numberMissing)
    IN  IF repeatingWords
        THEN Power(loweredAllWords, numberMissing) * Product(sizes)
        ELSE Product(sizes) * FallingProduct(loweredAllWords, numberMissing)

getUpperBound(partialWithCandidates, repeatingWords) ==
    LET numberMissing ==
            Len(SelectSeq(partialWithCandidates, LAMBDA w : w.kind = "undefined"))
        partials == SelectSeq(partialWithCandidates, LAMBDA w : w.kind = "array")
        sizes == [i \in 1..Len(partials) |-> Len(partials[i].list)]
        loweredAllWords ==
            NumWords - (Len(partialWithCandidates) - numberMissing)
    IN  IF repeatingWords
        THEN Power(NumWords, numberMissing) * Product(sizes)
        ELSE Product(sizes) * FallingProduct(loweredAllWords, numberMissing)

(***************************************************************************)
(* create.ts: the combination generator                                    *)
(***************************************************************************)
RECURSIVE permutationsGenerator(_, _, _, _)
RECURSIVE PermutationsFrom(_, _, _, _, _)

RECURSIVE PermutationsFromUnfiltered(_, _, _, _, _)
\* mutant of PermutationsFrom: the repeatingWords check is left out
PermutationsFromUnfiltered(partialWithCandidates, repeatingWords, current, depth, j) ==
    LET candidates == Candidates(partialWithCandidates, depth)
    IN  IF j > Len(candidates) THEN <<>>
        ELSE permutationsGenerator(partialWithCandidates, repeatingWords,
                                   Append(current, candidates[j]), depth + 1)
             \o PermutationsFromUnfiltered(partialWithCandidates,
                                           repeatingWords, current, depth, j + 1)

RECURSIVE PermutationsFromDescending(_, _, _, _, _)
\* mutant of PermutationsFrom: the for loop walks the candidates last to first
PermutationsFromDescending(partialWithCandidates, repeatingWords, current, depth, j) ==
    LET candidates == Candidates(partialWithCandidates, depth)
    IN  IF j > Len(candidates) THEN <<>>
        ELSE LET word == candidates[Len(candidates) + 1 - j]
                 testMnemonic ==
                     getPartialMnemonicWithMissingWords(
                         partialWithCandidates, current, depth)
                 skip == ~repeatingWords /\ StringIncludes(testMnemonic, word)
             IN  (IF skip THEN <<>>
                  ELSE permutationsGenerator(partialWithCandidates, repeatingWords,
                                             Append(current, word), depth + 1))
                 \o PermutationsFromDescending(partialWithCandidates,
                                               repeatingWords, current, depth,
                                               j + 1)

\* the for loop of permutationsGenerator over candidates[j..], in order
PermutationsFrom(partialWithCandidates, repeatingWords, current, depth, j) ==
    LET candidates == Candidates(partialWithCandidates, depth)
    IN  IF j > Len(candidates) THEN <<>>
        ELSE LET word == candidates[j]
                 testMnemonic ==
                     getPartialMnemonicWithMissingWords(
                         partialWithCandidates, current, depth)
                 skip == ~repeatingWords /\ StringIncludes(testMnemonic, word)
             IN  (IF skip THEN <<>>
                  ELSE permutationsGenerator(partialWithCandidates, repeatingWords,
                                             Append(current, word), depth + 1))
                 \o PermutationsFrom(partialWithCandidates, repeatingWords,
                                     current, depth, j + 1)

\* the tuples that permutationsGenerator(current, depth) pushes to
\* combinations, in the order it pushes them
permutationsGenerator(partialWithCandidates, repeatingWords, current, depth) ==
    IF depth = NumMissing(partialWithCandidates) THEN <<current>>
    ELSE PermutationsFrom(partialWithCandidates, repeatingWords, current, depth, 1)

RECURSIVE DecodeFromLeastSignificantFirst(_, _, _, _)
\* mutant of DecodeFrom: position 0 takes the least significant digit
DecodeFromLeastSignificantFirst(partialWithCandidates, i, remainingIndex, totalCombinations) ==
    IF i = NumMissing(partialWithCandidates) THEN <<>>
    ELSE LET candidates == Candidates(partialWithCandidates, i)
         IN  <<candidates[(remainingIndex % Len(candidates)) + 1]>> \o
             DecodeFromLeastSignificantFirst(
                 partialWithCandidates, i + 1,
                 remainingIndex \div Len(candidates),
                 totalCombinations \div Len(candidates))

RECURSIVE DecodeFrom(_, _, _, _)
\* the for loop of getCombinationAtIndex from position i (counted from 0)
DecodeFrom(partialWithCandidates, i, remainingIndex, totalCombinations) ==
    IF i = NumMissing(partialWithCandidates) THEN <<>>
    ELSE LET candidates == Candidates(partialWithCandidates, i)
             combinationsAfterThis == totalCombinations \div Len(candidates)
             candidateIndex == remainingIndex \div combinationsAfterThis
         IN  <<candidates[candidateIndex + 1]>> \o
             DecodeFrom(partialWithCandidates, i + 1,
                        remainingIndex % combinationsAfterThis,
                        combinationsAfterThis)

Null == <<"null">>

getCombinationAtIndex(partialWithCandidates, repeatingWords, targetIndex) ==
    IF NumMissing(partialWithCandidates) = 0 THEN Null
    ELSE LET totalCombinations ==
                 getUpperBound(partialWithCandidates, repeatingWords)
         IN  IF targetIndex >= totalCombinations THEN Null
             ELSE DecodeFrom(partialWithCandidates, 0, targetIndex,
                             totalCombinations)

(***************************************************************************)
(* createCombinationsGenerator as a coroutine.  phase is the yield at      *)
(* which it is suspended: "unstarted" (not yet run), "sentinel" (line      *)
(* 121), "chunk" (line 93), "tail" (line 126), or "done".  pos is the      *)
(* number of tuples pushed to combinations so far; stream is the sequence  *)
(* of tuples permutationsGenerator pushes for the options.                 *)
(***************************************************************************)
NewGenerator == [phase |-> "unstarted", pos |-> 0]

\* the sentinel chunk [[]]
Sentinel == << <<>> >>

\* mutant of ReachedChunkSize: without a size every tuple is a chunk
ReachedChunkSizeOrOne(length, chunkSize) == IF chunkSize = Undefined THEN length >= 1 ELSE length >= chunkSize

\* mutant of ReachedChunkSize: the chunk is yielded one push late
ReachedChunkSizeExceeded(length, chunkSize) == chunkSize # Undefined /\ length > chunkSize

\* combinations.length >= chunkSize; a comparison with undefined is false
ReachedChunkSize(length, chunkSize) ==
    chunkSize # Undefined /\ length >= chunkSize

RECURSIVE RunGenerator(_, _, _, _)
\* the generator running from pos with combinations (the tuples pushed since
\* the last yield) until its next yield or its return
RunGenerator(stream, pos, combinations, chunkSize) ==
    IF pos = Len(stream)
    THEN IF Len(combinations) > 0
         THEN [gen |-> [phase |-> "tail", pos |-> pos],
               done |-> FALSE, value |-> combinations]
         ELSE [gen |-> [phase |-> "done", pos |-> pos],
               done |-> TRUE, value |-> <<>>]
    ELSE LET pushed == Append(combinations, stream[pos + 1])
         IN  IF ReachedChunkSize(Len(pushed), chunkSize)
             THEN [gen |-> [phase |-> "chunk", pos |-> pos + 1],
                   done |-> FALSE, value |-> pushed]
             ELSE RunGenerator(stream, pos + 1, pushed, chunkSize)

\* generator.next(arg): the new generator state and the IteratorResult
GeneratorNext(stream, gen, arg) ==
    CASE gen.phase = "unstarted" ->
             \* runs to the first yield; the argument of the first next is lost
             [gen |-> [phase |-> "sentinel", pos |-> 0],
              done |-> FALSE, value |-> Sentinel]
      [] gen.phase = "sentinel" ->
             \* skipCount = arg; chunkSize = skipCount
             RunGenerator(stream, gen.pos, <<>>, arg)
      [] gen.phase = "chunk" ->
             \* nextChunkSize = arg; combinations = []; chunkSize = nextChunkSize
             RunGenerator(stream, gen.pos, <<>>, arg)
      [] OTHER ->
             [gen |-> [phase |-> "done", pos |-> gen.pos],
              done |-> TRUE, value |-> <<>>]

(***************************************************************************)
(* progress.ts: the progress tracker.  The progress file holds the text    *)
(* JSON.stringify made of the saved state, in which the two bigints are    *)
(* decimal strings, or any other text, or does not exist.  The two time    *)
(* stamps of the state are left out.                                       *)
(***************************************************************************)
DigitChars == <<"0", "1", "2", "3", "4", "5", "6", "7", "8", "9">>

IsDigit(c) == \E d \in 1..10 : DigitChars[d] = c

DigitValue(c) == (CHOOSE d \in 1..10 : DigitChars[d] = c) - 1

RECURSIVE BigIntToString(_)
\* bigint.toString() of a bigint >= 0: its decimal digits
BigIntToString(n) ==
    IF n < 10 THEN <<DigitChars[n + 1]>>
    ELSE BigIntToString(n \div 10) \o <<DigitChars[(n % 10) + 1]>>

RECURSIVE DigitsValueMostSignificantLast(_)
\* mutant of DigitsValue: the digits are read from the wrong end
DigitsValueMostSignificantLast(str) ==
    IF Len(str) = 0 THEN 0
    ELSE 10 * DigitsValueMostSignificantLast(Tail(str)) + DigitValue(str[1])

RECURSIVE DigitsValue(_)
\* the number a string of decimal digits denotes
DigitsValue(str) ==
    IF Len(str) = 0 THEN 0
    ELSE 10 * DigitsValue(SubSeq(str, 1, Len(str) - 1)) + DigitValue(str[Len(str)])

\* a property the JSON object does not have
Absent == <<"undefined">>

\* mutant of BigInt: what is not a number counts as 0n
BigIntOrZero(value) == IF value # Absent /\ \A k \in 1..Len(value) : IsDigit(value[k]) THEN Returns(DigitsValue(value)) ELSE Returns(0)

\* BigInt(value) of a property of the parsed object: a string of digits is
\* its number, the empty string is 0n, undefined and other strings throw
BigInt(value) ==
    IF value = Absent THEN Throws
    ELSE IF \A k \in 1..Len(value) : IsDigit(value[k])
    THEN Returns(DigitsValue(value))
    ELSE Throws

\* the state loadProgress returns when there is no file
FreshState ==
    [lastProcessedIndex |-> 0, totalCombinations |-> 0, chunksProcessed |-> 0,
     status |-> "running", error |-> "none"]

\* the object saveProgress hands to JSON.stringify
Stringified(st) ==
    [st EXCEPT !.lastProcessedIndex = BigIntToString(st.lastProcessedIndex),
               !.totalCombinations = BigIntToString(st.totalCombinations)]

\* a file: whether it exists, whether its text is JSON, and the object the
\* text denotes
NoFile == [exists |-> FALSE, json |-> FALSE, data |-> Stringified(FreshState)]

\* loadProgress with { ...parsed } returned as it was parsed
loadProgressAsParsed(progressFile) == IF progressFile.exists /\ progressFile.json THEN progressFile.data ELSE FreshState

\* existsSync, then JSON.parse and the two BigInt() inside try/catch; what
\* the catch leaves is the fresh state
loadProgress(progressFile) ==
    IF ~progressFile.exists THEN FreshState
    ELSE IF ~progressFile.json THEN FreshState
    ELSE LET parsed == progressFile.data
             lastProcessedIndex == BigInt(parsed.lastProcessedIndex)
             totalCombinations == BigInt(parsed.totalCombinations)
         IN  IF lastProcessedIndex.threw \/ totalCombinations.threw
             THEN FreshState
             ELSE [parsed EXCEPT
                      !.lastProcessedIndex = lastProcessedIndex.value,
                      !.totalCombinations = totalCombinations.value]

\* the file after a saveProgress() that wrote, of a tracker whose state is st
saveProgress(st) == [exists |-> TRUE, json |-> TRUE, data |-> Stringified(st)]

updateProgress(st, processedIndex, chunksProcessed) ==
    [st EXCEPT !.lastProcessedIndex = processedIndex,
               !.chunksProcessed = @ + chunksProcessed]

setTotalCombinations(st, total) == [st EXCEPT !.totalCombinations = total]

setStatus(st, status) == [st EXCEPT !.status = status]

\* setStatus(status, error): if (error) this.state.error = error
setStatusWithError(st, status, error) ==
    [st EXCEPT !.status = status,
               !.error = IF error = "none" THEN @ ELSE error]

(***************************************************************************)
(* manager.ts: the constructor of WorkerManager                            *)
(***************************************************************************)
RECURSIVE SkipLoop(_, _, _, _)
\* the skip loop of the constructor: the generator after it
SkipLoop(tuples, gen, remainingToSkip, chunkSize) ==
    IF remainingToSkip >= chunkSize
    THEN SkipLoop(tuples, GeneratorNext(tuples, gen, chunkSize).gen,
                  remainingToSkip - chunkSize, chunkSize)
    ELSE IF remainingToSkip > 0
         THEN GeneratorNext(tuples, gen, remainingToSkip).gen
         ELSE gen

\* this.generator after the constructor (0n is falsy: no resume)
ConstructGenerator(opts, tuples) ==
    IF opts.resumeFromIndex # 0
    THEN SkipLoop(tuples, NewGenerator, opts.resumeFromIndex, opts.chunkSize)
    ELSE GeneratorNext(tuples, NewGenerator, opts.chunkSize).gen

\* the tracker states the constructor saves, in order
ConstructorSaves(opts, progressFile) ==
    LET loaded == loadProgress(progressFile)
        withTotal == setTotalCombinations(loaded, opts.totalCombinations)
    IN  IF opts.resumeFromIndex # 0
        THEN <<withTotal, updateProgress(withTotal, opts.resumeFromIndex, 0)>>
        ELSE <<withTotal>>

Last(s) == s[Len(s)]

(***************************************************************************)
(* State.                                                                  *)
(***************************************************************************)
VARIABLES
    options,      \* WorkerManagerOptions / the generator's arguments
    stream,       \* the tuples the generator pushes, in order
    generator,    \* the coroutine state of the generator
    emitted,      \* history: the tuples yielded so far, sentinel excluded
    yields,       \* the last yield: <<argument of next, length of its chunk>>
    execution,    \* "first" or "second" execution of the tool on the progress file
    proc,         \* the process: "alive" or "crashed"
    file,         \* the progress file
    state,        \* ProgressTracker.state
    isRunning,
    isGeneratorExhausted,
    workers,      \* this.workers
    terminated,   \* the workers on which terminate() has been called
    activeTasks,  \* this.activeTasks, as the set of its tasks
    posted,       \* the tasks a live worker has received and not yet answered
    results,      \* this.results
    currentIndex, \* processAllChunks: currentIndex
    chunkId,      \* processAllChunks: chunkId
    loop,         \* processNextChunk / waitForCompletion: what is scheduled
    startState,   \* where start() is
    cleanups,     \* cleanup() calls of handleWorkerResult awaiting termination
    returned,     \* the value start() returns
    skipped,      \* history: tuples the constructor discarded
    writes,       \* history: lastProcessedIndex of every save of this execution
    dispatched,   \* history: the chunks handed to workers in this execution
    wins,         \* history: the win results handled, in order
    handled,      \* history: the worker results handled, in order
    firstRun,     \* history: what the first execution did
    calls,        \* what the caller of start() has called on the manager since
    query,        \* one call of queryAddressBalances
    tracker,      \* history: the last call made on a ProgressTracker alone
    resolve,      \* one call of createPartialWithCandidates
    entry,        \* an entry point checking the mnemonic it was given
    recovery,     \* one run of the command line: main() and recover()
    worker        \* worker.ts: the handler of one process_chunk message

genVars == <<options, stream, generator, emitted, yields>>

trackerVars == <<file, state, writes>>

managerVars ==
    <<execution, proc, file, state, isRunning, isGeneratorExhausted, workers,
      terminated, activeTasks, posted, results, currentIndex, chunkId, loop,
      startState, cleanups, returned, skipped, writes, dispatched, wins,
      handled, firstRun, calls>>

entryVars == <<resolve, entry, recovery, worker>>

vars == <<genVars, managerVars, query, tracker, entryVars>>

Booleans == {TRUE, FALSE}

\* the arguments of createCombinationsGenerator
GeneratorInputs ==
    [partialWithCandidates : Partials, repeatingWords : Booleans]

\* the sizes a caller passes to next: a bigint, or nothing
NextArguments == (1..MaxChunkSize) \cup {Undefined}

NoResults == [items |-> <<>>, queryResult |-> FALSE]

NoFirstRun ==
    [tuples |-> {}, inFlight |-> {}, fresh |-> FALSE, crashed |-> FALSE,
     resumed |-> FALSE]

\* no call of queryAddressBalances is under way
NoQuery ==
    [chain |-> "none", transport |-> <<>>, i |-> 0, balances |-> <<>>,
     loaded |-> <<>>, status |-> "none", calls |-> <<>>]

\* no ProgressTracker is used alone
NoTracker == [op |-> "none", saved |-> FreshState, written |-> FALSE, raised |-> FALSE]

NoResolve ==
    [partialMnemonic |-> <<>>, i |-> 0, partialWithCandidates |-> <<>>,
     returned |-> FALSE, threw |-> FALSE]

NoEntry ==
    [point |-> "none", tokens |-> 0, wellFormed |-> TRUE, outcome |-> "none"]

NoRecovery ==
    [phase |-> "none", partialMnemonic |-> <<>>, repeatingWords |-> FALSE,
     publicKey |-> "none", target |-> <<>>, resume |-> FALSE,
     announced |-> 0, derived |-> <<>>, result |-> <<>>]

\* no worker has received a message
NoWorker ==
    [phase |-> "none", message |-> <<>>, underivable |-> {}, transport |-> <<>>,
     addressChunks |-> <<>>, combinationChunks |-> <<>>, reply |-> <<>>]

\* no entry point is running
NoEntryPoint ==
    /\ resolve = NoResolve
    /\ entry = NoEntry
    /\ recovery = NoRecovery
    /\ worker = NoWorker

\* the caller has called nothing but start()
NoCalls == [shutdown |-> "none", secondStart |-> "none"]

\* the fields of a WorkerManager right after construction
NewManager ==
    /\ calls = NoCalls
    /\ isRunning = FALSE
    /\ isGeneratorExhausted = FALSE
    /\ workers = <<>>
    /\ terminated = {}
    /\ activeTasks = {}
    /\ posted = {}
    /\ results = NoResults
    /\ currentIndex = 0
    /\ chunkId = 0
    /\ loop = "none"
    /\ startState = "notCalled"
    /\ cleanups = 0
    /\ returned = NoResults
    /\ dispatched = <<>>
    /\ wins = <<>>
    /\ handled = <<>>

(***************************************************************************)
(* The generator driven directly by a caller.                              *)
(***************************************************************************)
InitGenerator ==
    /\ options \in GeneratorInputs
    /\ stream = permutationsGenerator(options.partialWithCandidates,
                                      options.repeatingWords, <<>>, 0)
    /\ generator = NewGenerator
    /\ emitted = <<>>
    /\ yields = <<>>
    /\ execution = "first"
    /\ proc = "alive"
    /\ file = NoFile
    /\ state = FreshState
    /\ skipped = 0
    /\ writes = <<>>
    /\ firstRun = NoFirstRun
    /\ NoEntryPoint
    /\ tracker = NoTracker
    /\ query = NoQuery
    /\ NewManager

\* the first next(): returns the sentinel
NextSentinel ==
    /\ generator.phase = "unstarted"
    /\ generator' = GeneratorNext(stream, generator, Undefined).gen
    /\ UNCHANGED <<options, stream, emitted, yields, managerVars, query, tracker, entryVars>>

\* a later next(arg)
NextChunk(arg) ==
    /\ generator.phase \in {"sentinel", "chunk", "tail"}
    /\ LET r == GeneratorNext(stream, generator, arg)
       IN  /\ generator' = r.gen
           /\ emitted' = IF r.done THEN emitted ELSE emitted \o r.value
           /\ yields' = IF r.done THEN yields
                        ELSE << <<arg, Len(r.value)>> >>
    /\ UNCHANGED <<options, stream, managerVars, query, tracker, entryVars>>

GeneratorStep ==
    \/ NextSentinel
    \/ \E arg \in NextArguments : NextChunk(arg)

GenSpec == InitGenerator /\ [][GeneratorStep]_vars

(***************************************************************************)
(* progress.ts: the balance queries.  The transport of a query is what     *)
(* fetch and res.json(), or client.getBalance, do for one address.         *)
(***************************************************************************)
\* the largest sum or balance a transport reports
MaxBalance == 2

\* the most addresses handed to one call of queryAddressBalances
MaxAddresses == 2

Outcome(kind, funded, spent) == [kind |-> kind, funded |-> funded, spent |-> spent]

\* what the request of queryBtcBalance can meet: fetch rejects, a response
\* that is not ok, a body that is not JSON, JSON without chain_stats, or the
\* sums of the address (an address spends only what funded it)
BtcTransport ==
    {Outcome(kind, 0, 0) : kind \in {"network_error", "not_ok", "invalid_json", "no_chain_stats"}}
        \cup UNION {{Outcome("success", funded, spent) : spent \in 0..funded} : funded \in 0..MaxBalance}

\* what client.getBalance can meet: the request fails, the node answers with
\* an RPC error, or the balance of the address (in funded)
EthTransport ==
    {Outcome(kind, 0, 0) : kind \in {"network_error", "not_ok", "invalid_json", "rpc_error"}}
        \cup {Outcome("success", funded, 0) : funded \in 0..MaxBalance}

\* await fetch; if (!res.ok) return 0n; await res.json();
\* if (!data.chain_stats) return 0n; return BigInt(funded - spent)
queryBtcBalance(t) ==
    IF t.kind = "network_error" THEN Throws
    ELSE IF t.kind = "not_ok" THEN Returns(0)
    ELSE IF t.kind = "invalid_json" THEN Throws
    ELSE IF t.kind = "no_chain_stats" THEN Returns(0)
    ELSE Returns(t.funded - t.spent)

\* try { return await client.getBalance(...) } catch { return 0n }
queryEthBalance(t) ==
    IF t.kind = "success" THEN Returns(t.funded) ELSE Returns(0)

\* the arguments of queryAddressBalances: the chain and, for each address,
\* what its request will meet
QueryInputs ==
    UNION {[chain : {"bitcoin"}, transport : SeqsUpTo(BtcTransport, MaxAddresses)],
           [chain : {"mainnet"}, transport : SeqsUpTo(EthTransport, MaxAddresses)]}

InitQuery ==
    /\ \E input \in QueryInputs :
           query = [chain |-> input.chain, transport |-> input.transport,
                    i |-> 0, balances |-> <<>>, loaded |-> <<>>,
                    status |-> "running", calls |-> <<>>]
    /\ options = [partialWithCandidates |-> <<>>, repeatingWords |-> FALSE]
    /\ stream = <<>>
    /\ generator = NewGenerator
    /\ emitted = <<>>
    /\ yields = <<>>
    /\ execution = "first"
    /\ proc = "alive"
    /\ file = NoFile
    /\ state = FreshState
    /\ skipped = 0
    /\ writes = <<>>
    /\ firstRun = NoFirstRun
    /\ NoEntryPoint
    /\ tracker = NoTracker
    /\ NewManager

\* one turn of the loop of queryAddressBalances: the balance of address i is
\* awaited and kept if it is > 0n; an exception leaves the function
QueryAddress ==
    /\ query.status = "running"
    /\ query.i < Len(query.transport)
    /\ LET t == query.transport[query.i + 1]
           balance == IF query.chain = "bitcoin" THEN queryBtcBalance(t)
                      ELSE queryEthBalance(t)
           call == [chain |-> query.chain, transport |-> t, result |-> balance]
       IN  query' = IF balance.threw
                    THEN [query EXCEPT !.status = "threw",
                                       !.calls = Append(@, call)]
                    ELSE IF balance.value > 0
                    THEN [query EXCEPT !.i = @ + 1,
                                       !.balances = Append(@, balance.value),
                                       !.loaded = Append(@, query.i),
                                       !.calls = Append(@, call)]
                    ELSE [query EXCEPT !.i = @ + 1,
                                       !.calls = Append(@, call)]
    /\ UNCHANGED <<genVars, managerVars, tracker, entryVars>>

\* the loop is over: balances and the loaded wallets are returned
QueryReturn ==
    /\ query.status = "running"
    /\ query.i = Len(query.transport)
    /\ query' = [query EXCEPT !.status = "returned"]
    /\ UNCHANGED <<genVars, managerVars, tracker, entryVars>>

QueryStep ==
    \/ QueryAddress
    \/ QueryReturn

QuerySpec == InitQuery /\ [][QueryStep]_vars

(***************************************************************************)
(* Entry points.  Nothing else of the program runs while one of them is    *)
(* looked at alone.                                                        *)
(***************************************************************************)
IdleManager ==
    /\ options = [partialWithCandidates |-> <<>>, repeatingWords |-> FALSE]
    /\ stream = <<>>
    /\ generator = NewGenerator
    /\ emitted = <<>>
    /\ yields = <<>>
    /\ execution = "first"
    /\ proc = "alive"
    /\ skipped = 0
    /\ writes = <<>>
    /\ firstRun = NoFirstRun
    /\ query = NoQuery
    /\ tracker = NoTracker
    /\ NewManager

IdleProgram ==
    /\ IdleManager
    /\ file = NoFile
    /\ state = FreshState

(***************************************************************************)
(* create.ts: createPartialWithCandidates, one token at a time             *)
(***************************************************************************)
InitResolve ==
    /\ \E partialMnemonic \in SeqsUpTo(Tokens, MaxPhrase) :
           resolve = [partialMnemonic |-> partialMnemonic, i |-> 0,
                      partialWithCandidates |-> <<>>,
                      returned |-> FALSE, threw |-> FALSE]
    /\ entry = NoEntry
    /\ recovery = NoRecovery
    /\ worker = NoWorker
    /\ IdleProgram

\* one turn of the for loop: partialWithCandidates[i] is assigned
ResolveNext ==
    /\ ~resolve.returned
    /\ resolve.i < Len(resolve.partialMnemonic)
    /\ resolve' = [resolve EXCEPT
                      !.i = @ + 1,
                      !.partialWithCandidates =
                          Append(@, ResolveToken(resolve.partialMnemonic[resolve.i + 1]))]
    /\ UNCHANGED <<genVars, managerVars, query, tracker, entry, recovery, worker>>

\* the loop is over: the array is returned
ResolveReturn ==
    /\ ~resolve.returned
    /\ resolve.i = Len(resolve.partialMnemonic)
    /\ resolve' = [resolve EXCEPT !.returned = TRUE]
    /\ UNCHANGED <<genVars, managerVars, query, tracker, entry, recovery, worker>>

ResolveStep ==
    \/ ResolveNext
    \/ ResolveReturn

ResolveSpec == InitResolve /\ [][ResolveStep]_vars

(***************************************************************************)
(* recover(): the sequential loop over createCombinationsGenerator, and    *)
(* main() of cli.ts, which calls it.  The phrases of the model are shorter *)
(* than the 12 tokens main() asks for: the check of the length is looked   *)
(* at on its own below.                                                    *)
(***************************************************************************)
\* the wallet the caller looks for: none, or the one of the first or of the
\* last tuple of the enumeration
PublicKeys == {"none", "first", "last"}

\* a call of recover(args)
RecoverArgs ==
    [partialMnemonic : SeqsUpTo(Tokens, MaxPhrase), repeatingWords : Booleans, publicKey : PublicKeys]

NewRecovery(args, phase, resume) ==
    [phase |-> phase, partialMnemonic |-> args.partialMnemonic,
     repeatingWords |-> args.repeatingWords, publicKey |-> args.publicKey,
     target |-> <<>>, resume |-> resume, announced |-> 0, derived |-> <<>>,
     result |-> <<>>]

InitRecover ==
    /\ \E args \in RecoverArgs : recovery = NewRecovery(args, "start", FALSE)
    /\ resolve = NoResolve
    /\ entry = NoEntry
    /\ worker = NoWorker
    /\ IdleProgram

\* recover() up to its for...of: createPartialWithCandidates, getUpperBound,
\* createCombinationsGenerator
RecoverBegin ==
    /\ recovery.phase = "start"
    /\ LET partialWithCandidates == createPartialWithCandidates(recovery.partialMnemonic)
           tuples == permutationsGenerator(partialWithCandidates, recovery.repeatingWords, <<>>, 0)
           wanted == IF recovery.publicKey = "first" THEN 1 ELSE Len(tuples)
       IN  /\ options' = [partialWithCandidates |-> partialWithCandidates,
                          repeatingWords |-> recovery.repeatingWords]
           /\ stream' = tuples
           /\ recovery' = [recovery EXCEPT
                              !.phase = "loop",
                              !.target = IF recovery.publicKey = "none" \/ Len(tuples) = 0
                                         THEN <<>>
                                         ELSE FullMnemonicWords(partialWithCandidates, tuples[wanted])]
    /\ generator' = NewGenerator
    /\ UNCHANGED <<emitted, yields, managerVars, query, tracker, resolve, entry, worker>>

\* the phrases createPossibleAddressesAndCombinations derives for a chunk
DerivedFrom(combinationsChunk) ==
    [n \in 1..Len(combinationsChunk) |->
        [combination |-> combinationsChunk[n],
         fullMnemonic |-> FullMnemonicWords(options.partialWithCandidates, combinationsChunk[n])]]

\* one turn of the for...of: next() without an argument, the body derives
\* the chunk, and returns when the wallet looked for is in it
RecoverIteration ==
    /\ recovery.phase = "loop"
    /\ LET chunk == GeneratorNext(stream, generator, Undefined)
           derivedChunk == DerivedFrom(chunk.value)
           matching == {n \in 1..Len(derivedChunk) :
                           /\ recovery.target # <<>>
                           /\ derivedChunk[n].fullMnemonic = recovery.target}
       IN  /\ generator' = chunk.gen
           /\ recovery' =
                  IF chunk.done
                  THEN [recovery EXCEPT !.phase = "ended"]
                  ELSE IF matching # {}
                  THEN [recovery EXCEPT !.phase = "returned",
                                        !.derived = @ \o derivedChunk,
                                        !.result = recovery.target]
                  ELSE [recovery EXCEPT !.derived = @ \o derivedChunk]
    /\ UNCHANGED <<options, stream, emitted, yields, managerVars, query,
                   tracker, resolve, entry, worker>>

RecoverStep ==
    \/ RecoverBegin
    \/ RecoverIteration

RecoverSpec == InitRecover /\ [][RecoverStep]_vars

(***************************************************************************)
(* cli.ts: main() with and without --resume, on a path where a progress    *)
(* file of an earlier run may lie                                          *)
(***************************************************************************)
\* the arguments of the command line that recover() receives
CliArgs ==
    [partialMnemonic : SeqsUpTo(Tokens, MaxSlots), repeatingWords : Booleans, publicKey : PublicKeys]

\* the progress files an earlier run may have left
CliFiles ==
    {NoFile} \cup {saveProgress([FreshState EXCEPT !.status = status, !.lastProcessedIndex = s]) : status \in {"running", "paused", "completed"}, s \in 1..MaxResume}

InitCli ==
    /\ \E args \in CliArgs, resume \in Booleans : recovery = NewRecovery(args, "main", resume)
    /\ file \in CliFiles
    /\ state = FreshState
    /\ resolve = NoResolve
    /\ entry = NoEntry
    /\ worker = NoWorker
    /\ IdleManager

\* main() up to its call of recover(): with --resume a ProgressTracker is
\* constructed and the index of a 'running' or 'paused' file is printed
Main ==
    /\ recovery.phase = "main"
    /\ LET progress == loadProgress(file)
       IN  /\ state' = IF recovery.resume THEN progress ELSE state
           /\ recovery' = [recovery EXCEPT
                              !.phase = "start",
                              !.announced =
                                  IF recovery.resume /\ progress.status \in {"running", "paused"}
                                  THEN progress.lastProcessedIndex ELSE 0]
    /\ UNCHANGED <<genVars, execution, proc, file, isRunning,
                   isGeneratorExhausted, workers, terminated, activeTasks,
                   posted, results, currentIndex, chunkId, loop, startState,
                   cleanups, returned, skipped, writes, dispatched, wins,
                   handled, firstRun, calls, query, tracker, resolve, entry, worker>>

CliStep ==
    \/ Main
    \/ RecoverStep

CliSpec == InitCli /\ [][CliStep]_vars

(***************************************************************************)
(* The checks the entry points make on the mnemonic before anything is     *)
(* enumerated: main() of cli.ts, and the start-up code of recover.ts with  *)
(* its regular expression.  Of the mnemonic only the number of tokens and  *)
(* whether every token is letters or one * are kept.                       *)
(***************************************************************************)
\* the longest mnemonic typed
MaxTokens == 25

\* cli.ts: if (partialMnemonic.length < 12) throw
MinimumLength == 12

\* recover.ts: one token, then {11,} more tokens
MinimumRepeats == 11

InitEntry ==
    /\ \E point \in {"cli", "recover"}, tokens \in 1..MaxTokens, wellFormed \in Booleans :
           entry = [point |-> point, tokens |-> tokens, wellFormed |-> wellFormed, outcome |-> "pending"]
    /\ resolve = NoResolve
    /\ recovery = NoRecovery
    /\ worker = NoWorker
    /\ IdleProgram

\* main(): the mnemonic is split at the spaces and its length compared
CheckCli ==
    /\ entry.point = "cli"
    /\ entry.outcome = "pending"
    /\ entry' = [entry EXCEPT !.outcome =
                    IF entry.tokens < MinimumLength THEN "rejected" ELSE "accepted"]
    /\ UNCHANGED <<genVars, managerVars, query, tracker, resolve, recovery, worker>>

\* recover.ts run as a program: the regular expression is tested
CheckRecover ==
    /\ entry.point = "recover"
    /\ entry.outcome = "pending"
    /\ entry' = [entry EXCEPT !.outcome =
                    IF entry.wellFormed /\ entry.tokens - 1 >= MinimumRepeats
                    THEN "accepted" ELSE "rejected"]
    /\ UNCHANGED <<genVars, managerVars, query, tracker, resolve, recovery, worker>>

EntryStep ==
    \/ CheckCli
    \/ CheckRecover

EntrySpec == InitEntry /\ [][EntryStep]_vars

(***************************************************************************)
(* progress.ts: a ProgressTracker used alone, on a path where any file     *)
(* may lie, and on a disk whose writes may fail.                           *)
(***************************************************************************)
\* the largest index and total handed to the tracker
MaxIndex == 10

\* the largest chunksProcessed
MaxChunksProcessed == 1

Statuses == {"running", "completed", "paused", "error"}

\* the error argument of setStatus: none, or a message
Errors == {"none", "e"}

\* the indices handed to updateProgress and setTotalCombinations
Indices == {0, MaxIndex - 1, MaxIndex}

\* a file whose text is not JSON
NotJson == [exists |-> TRUE, json |-> FALSE, data |-> Stringified(FreshState)]

\* files the tracker did not write: JSON whose lastProcessedIndex or
\* totalCombinations is missing, is not a number, or is the empty string
ForeignData ==
    {[lastProcessedIndex |-> l, totalCombinations |-> t, chunksProcessed |-> 1, status |-> "completed", error |-> "none"] :
        l \in {Absent, <<"x">>, <<>>, <<"7">>}, t \in {Absent, <<"1", "x">>, <<"9">>}}

\* the files that may lie on the path when a tracker is constructed
StartFiles ==
    {NoFile, NotJson} \cup {[exists |-> TRUE, json |-> TRUE, data |-> d] : d \in ForeignData}

\* new ProgressTracker(path): the state is what loadProgress returns
InitTracker ==
    /\ file \in StartFiles
    /\ state = loadProgress(file)
    /\ tracker = [op |-> "load", saved |-> FreshState, written |-> FALSE, raised |-> FALSE]
    /\ query = NoQuery
    /\ options = [partialWithCandidates |-> <<>>, repeatingWords |-> FALSE]
    /\ stream = <<>>
    /\ generator = NewGenerator
    /\ emitted = <<>>
    /\ yields = <<>>
    /\ execution = "first"
    /\ proc = "alive"
    /\ skipped = 0
    /\ writes = <<>>
    /\ firstRun = NoFirstRun
    /\ NoEntryPoint
    /\ NewManager

\* the end of updateProgress, setTotalCombinations and setStatus: the state
\* is assigned, then saveProgress() writes it or catches and logs the failure
\* of writeFileSync
Saved(st, written) ==
    /\ state' = st
    /\ file' = IF written THEN saveProgress(st) ELSE file
    /\ tracker' = [op |-> "save", saved |-> IF written THEN st ELSE FreshState,
                   written |-> written, raised |-> FALSE]
    /\ UNCHANGED <<genVars, execution, proc, isRunning, isGeneratorExhausted,
                   workers, terminated, activeTasks, posted, results,
                   currentIndex, chunkId, loop, startState, cleanups, returned,
                   skipped, writes, dispatched, wins, handled, firstRun, calls, query, entryVars>>

TrackerUpdateProgress(processedIndex, written) ==
    /\ state.chunksProcessed < MaxChunksProcessed
    /\ Saved(updateProgress(state, processedIndex, 1), written)

TrackerSetTotalCombinations(total, written) ==
    Saved(setTotalCombinations(state, total), written)

TrackerSetStatus(status, error, written) ==
    Saved(setStatusWithError(state, status, error), written)

\* another ProgressTracker is constructed on the same path
NewTracker ==
    /\ tracker.op = "save"
    /\ state' = loadProgress(file)
    /\ tracker' = [tracker EXCEPT !.op = "load"]
    /\ UNCHANGED <<genVars, execution, proc, file, isRunning,
                   isGeneratorExhausted, workers, terminated, activeTasks,
                   posted, results, currentIndex, chunkId, loop, startState,
                   cleanups, returned, skipped, writes, dispatched, wins,
                   handled, firstRun, calls, query, entryVars>>

TrackerStep ==
    \/ \E processedIndex \in Indices, written \in Booleans : TrackerUpdateProgress(processedIndex, written)
    \/ \E total \in Indices, written \in Booleans : TrackerSetTotalCombinations(total, written)
    \/ \E status \in Statuses, error \in Errors, written \in Booleans : TrackerSetStatus(status, error, written)
    \/ NewTracker

TrackerSpec == InitTracker /\ [][TrackerStep]_vars

(***************************************************************************)
(* manager.ts: one run of WorkerManager, its workers, and a second         *)
(* execution of the tool on the progress file the first one left.          *)
(***************************************************************************)
\* totalCombinations as the caller computes it (cli.ts: getUpperBound)
WithTotal(o) ==
    [partialWithCandidates |-> o.partialWithCandidates,
     repeatingWords |-> o.repeatingWords,
     chunkSize |-> o.chunkSize,
     numWorkers |-> o.numWorkers,
     resumeFromIndex |-> o.resumeFromIndex,
     publicKey |-> o.publicKey,
     queryBalances |-> o.queryBalances,
     totalCombinations |->
         getUpperBound(o.partialWithCandidates, o.repeatingWords)]

\* the phrases handed to the manager: a word, a prefix of two words, a missing
\* word
ManagerTokens ==
    {StringToken(wordList[1]), StringToken(<<"a">>), UndefinedToken}

ManagerPartials ==
    {createPartialWithCandidates(p) : p \in SeqsUpTo(ManagerTokens, MaxSlots)}

\* publicKey and queryBalances are modelled as set / not set
ManagerOptions ==
    {WithTotal(o) : o \in
        [partialWithCandidates : ManagerPartials,
         repeatingWords : Booleans,
         chunkSize : 1..MaxChunkSize,
         numWorkers : 1..MaxWorkers,
         resumeFromIndex : 0..MaxResume,
         publicKey : Booleans,
         queryBalances : Booleans]}

\* new WorkerManager(opts) when the progress file is progressFile
Construct(opts, tuples, progressFile) ==
    LET saves == ConstructorSaves(opts, progressFile)
        gen == ConstructGenerator(opts, tuples)
    IN  [generator |-> gen,
         state |-> Last(saves),
         file |-> saveProgress(Last(saves)),
         writes |-> [i \in 1..Len(saves) |-> saves[i].lastProcessedIndex],
         skipped |-> gen.pos]

InitManager ==
    /\ options \in ManagerOptions
    /\ stream = permutationsGenerator(options.partialWithCandidates,
                                      options.repeatingWords, <<>>, 0)
    /\ LET m == Construct(options, stream, NoFile)
       IN  /\ generator = m.generator
           /\ state = m.state
           /\ file = m.file
           /\ writes = m.writes
           /\ skipped = m.skipped
    /\ emitted = <<>>
    /\ yields = <<>>
    /\ execution = "first"
    /\ proc = "alive"
    /\ firstRun = NoFirstRun
    /\ NoEntryPoint
    /\ tracker = NoTracker
    /\ query = NoQuery
    /\ NewManager

\* the stream positions (0-based) of the tuples of a chunk
TuplesOf(task) == task.first..(task.first + task.size - 1)

TuplesOfAll(tasks) == UNION {TuplesOf(t) : t \in tasks}

\* start() up to its await of processAllChunks(): isRunning, setStatus,
\* initializeWorkers; the first call of processNextChunk is the scheduled one
StartEffects ==
    /\ isRunning' = TRUE
    /\ state' = setStatus(state, "running")
    /\ file' = saveProgress(state')
    /\ writes' = Append(writes, state'.lastProcessedIndex)
    /\ workers' = workers \o [i \in 1..options.numWorkers |-> i]
    /\ currentIndex' = options.resumeFromIndex
    /\ chunkId' = 0
    /\ loop' = "processNextChunk"
    /\ startState' = "awaitingChunks"
    /\ UNCHANGED <<genVars, execution, proc, isGeneratorExhausted, terminated,
                   activeTasks, posted, results, cleanups, returned, skipped,
                   dispatched, wins, handled, firstRun, calls, query, tracker, entryVars>>

\* the first call of start()
Start ==
    /\ proc = "alive"
    /\ startState = "notCalled"
    /\ ~isRunning
    /\ StartEffects

\* start() called again on the same manager after the first call returned
StartAgain ==
    /\ proc = "alive"
    /\ startState = "returned"
    /\ ~isRunning
    /\ StartEffects

Busy(w) == \E task \in activeTasks : task.worker = w

\* mutant of AvailableWorkers: a worker is taken whether or not it is busy
AnyWorkers == workers

\* this.workers.find(worker => no active task has that worker)
AvailableWorkers == SelectSeq(workers, LAMBDA w : ~Busy(w))

\* resolve() of processAllChunks and what start() does when its await
\* returns: setStatus('completed'), return this.results, and in finally the
\* call of cleanup(), which calls terminate() on every worker and awaits
Resolved ==
    /\ loop' = "resolved"
    /\ state' = setStatus(state, "completed")
    /\ file' = saveProgress(state')
    /\ writes' = Append(writes, state'.lastProcessedIndex)
    /\ returned' = results
    /\ terminated' = terminated \cup Range(workers)
    /\ startState' = "awaitingCleanup"

\* processNextChunk finds every worker busy (or none left): setTimeout again
PollNoWorker ==
    /\ proc = "alive"
    /\ loop = "processNextChunk"
    /\ Len(AvailableWorkers) = 0
    /\ UNCHANGED vars

\* processNextChunk with a worker available and the generator exhausted flag
\* set: it returns without scheduling anything
PollExhausted ==
    /\ proc = "alive"
    /\ loop = "processNextChunk"
    /\ Len(AvailableWorkers) > 0
    /\ isGeneratorExhausted
    /\ loop' = "ended"
    /\ UNCHANGED <<genVars, execution, proc, file, state, isRunning,
                   isGeneratorExhausted, workers, terminated, activeTasks,
                   posted, results, currentIndex, chunkId, startState,
                   cleanups, returned, skipped, writes, dispatched, wins,
                   handled,
                   firstRun, calls, query, tracker, entryVars>>

\* processNextChunk pulls a chunk and hands it to the available worker
Dispatch ==
    /\ proc = "alive"
    /\ loop = "processNextChunk"
    /\ Len(AvailableWorkers) > 0
    /\ ~isGeneratorExhausted
    /\ LET chunk == GeneratorNext(stream, generator, Undefined)
           task == [chunkId |-> chunkId,
                    worker |-> AvailableWorkers[1],
                    startIndex |-> currentIndex,
                    endIndex |-> currentIndex + Len(chunk.value),
                    first |-> generator.pos,
                    size |-> Len(chunk.value)]
       IN  /\ ~chunk.done
           /\ generator' = chunk.gen
           /\ activeTasks' = activeTasks \cup {task}
           /\ posted' = IF task.worker \in terminated THEN posted
                        ELSE posted \cup {task}
           /\ chunkId' = chunkId + 1
           /\ currentIndex' = task.endIndex
           /\ dispatched' = Append(dispatched, task)
    /\ UNCHANGED <<options, stream, emitted, yields, execution, proc, file,
                   state, isRunning, isGeneratorExhausted, workers, terminated,
                   results, loop, startState, cleanups, returned, skipped,
                   writes, wins, handled, firstRun, calls, query, tracker, entryVars>>

\* processNextChunk finds the generator done: waitForCompletion(resolve)
Exhausted ==
    /\ proc = "alive"
    /\ loop = "processNextChunk"
    /\ Len(AvailableWorkers) > 0
    /\ ~isGeneratorExhausted
    /\ LET chunk == GeneratorNext(stream, generator, Undefined)
       IN  /\ chunk.done
           /\ generator' = chunk.gen
    /\ isGeneratorExhausted' = TRUE
    /\ IF activeTasks = {}
       THEN Resolved
       ELSE /\ loop' = "waitForCompletion"
            /\ UNCHANGED <<file, state, writes, returned, terminated, startState>>
    /\ UNCHANGED <<options, stream, emitted, yields, execution, proc,
                   isRunning, workers, activeTasks, posted, results,
                   currentIndex, chunkId, cleanups, skipped, dispatched, wins,
                   handled,
                   firstRun, calls, query, tracker, entryVars>>

\* the timer of waitForCompletion fires with tasks still active
WaitActive ==
    /\ proc = "alive"
    /\ loop = "waitForCompletion"
    /\ activeTasks # {}
    /\ UNCHANGED vars

\* the timer of waitForCompletion fires with no active task: resolve()
WaitDone ==
    /\ proc = "alive"
    /\ loop = "waitForCompletion"
    /\ activeTasks = {}
    /\ Resolved
    /\ UNCHANGED <<genVars, execution, proc, isRunning, isGeneratorExhausted,
                   workers, activeTasks, posted, results, currentIndex,
                   chunkId, cleanups, skipped, dispatched, wins, handled, firstRun, calls, query, tracker, entryVars>>

\* worker.ts: the result types a worker can post for a chunk.  'error' is
\* what the catch around the whole of the handler posts, whatever the options
ResultTypes ==
    {"chunk_complete", "error"}
        \cup (IF options.publicKey THEN {"match_found"} ELSE {})
        \cup (IF options.queryBalances THEN {"loaded_wallet_found"} ELSE {})

IsWin(type) == type \in {"match_found", "loaded_wallet_found"}

\* this.results after handleWorkerResult, when it returns
ResultsAfter(res, type, task) ==
    IF type = "match_found"
    THEN [items |-> << <<type, task.chunkId>> >>, queryResult |-> FALSE]
    ELSE IF type = "loaded_wallet_found"
    THEN [items |-> << <<type, task.chunkId>> >>, queryResult |-> TRUE]
    ELSE IF ~options.publicKey /\ ~options.queryBalances
    THEN [res EXCEPT !.items = Append(@, <<type, task.chunkId>>)]
    ELSE res

\* an 'error' result has no addresses: push(...result.addresses) throws
HandlerThrows(type) ==
    type = "error" /\ ~options.publicKey /\ ~options.queryBalances

\* mutant of WorkerResult: the worker counts its tuples from 0
WorkerResultCountedFromZero(task, type) == [chunkId |-> task.chunkId, type |-> type, startIndex |-> 0, endIndex |-> task.size]

\* the result the worker posts for the message of a task: startIndex is the
\* message's, endIndex is startIndex + combinationsChunk.length
WorkerResult(task, type) == [chunkId |-> task.chunkId, type |-> type, startIndex |-> task.startIndex, endIndex |-> task.startIndex + task.size]

\* a worker posts its result for a task and handleWorkerResult runs
HandleWorkerResult(task, type) ==
    /\ proc = "alive"
    /\ task \in posted
    /\ task.worker \notin terminated
    /\ type \in ResultTypes
    /\ posted' = posted \ {task}
    /\ activeTasks' = {t \in activeTasks : t.chunkId # task.chunkId}
    /\ state' = updateProgress(state, WorkerResult(task, type).endIndex, 1)
    /\ file' = saveProgress(state')
    /\ writes' = Append(writes, state'.lastProcessedIndex)
    /\ IF IsWin(type)
       THEN /\ results' = ResultsAfter(results, type, task)
            /\ isRunning' = FALSE
            /\ terminated' = terminated \cup Range(workers)
            /\ cleanups' = cleanups + 1
            /\ wins' = Append(wins, <<type, task.chunkId>>)
            /\ proc' = proc
       ELSE /\ results' = IF HandlerThrows(type) THEN results
                          ELSE ResultsAfter(results, type, task)
            /\ proc' = IF HandlerThrows(type) THEN "crashed" ELSE proc
            /\ UNCHANGED <<isRunning, terminated, cleanups, wins>>
    /\ handled' = Append(handled, [type |-> type,
                                   chunkId |-> task.chunkId,
                                   startIndex |-> WorkerResult(task, type).startIndex,
                                   endIndex |-> WorkerResult(task, type).endIndex,
                                   task |-> task,
                                   written |-> state'.lastProcessedIndex,
                                   before |-> results,
                                   after |-> results',
                                   threw |-> HandlerThrows(type)])
    /\ UNCHANGED <<genVars, execution, isGeneratorExhausted, workers,
                   currentIndex, chunkId, loop, startState, returned, skipped,
                   dispatched, firstRun, calls, query, tracker, entryVars>>

\* a worker exits or crashes before it answers: the 'error' and 'exit'
\* listeners of initializeWorkers only log, the task stays in activeTasks
WorkerExits ==
    /\ proc = "alive"
    /\ \E task \in posted :
           /\ task.worker \notin terminated
           /\ posted' = posted \ {task}
    /\ UNCHANGED <<genVars, execution, proc, file, state, isRunning,
                   isGeneratorExhausted, workers, terminated, activeTasks,
                   results, currentIndex, chunkId, loop, startState, cleanups,
                   returned, skipped, writes, dispatched, wins, handled,
                   firstRun, calls, query, tracker, entryVars>>

\* the cleanup() that handleWorkerResult called continues after its await
CleanupAfterWin ==
    /\ proc = "alive"
    /\ cleanups > 0
    /\ cleanups' = cleanups - 1
    /\ workers' = <<>>
    /\ activeTasks' = {}
    /\ UNCHANGED <<genVars, execution, proc, file, state, isRunning,
                   isGeneratorExhausted, terminated, posted, results,
                   currentIndex, chunkId, loop, startState, returned, skipped,
                   writes, dispatched, wins, handled, firstRun, calls, query, tracker, entryVars>>

\* the cleanup() of start()'s finally continues; start() settles
StartReturns ==
    /\ proc = "alive"
    /\ startState = "awaitingCleanup"
    /\ workers' = <<>>
    /\ activeTasks' = {}
    /\ isRunning' = FALSE
    /\ startState' = "returned"
    /\ UNCHANGED <<genVars, execution, proc, file, state,
                   isGeneratorExhausted, terminated, posted, results,
                   currentIndex, chunkId, loop, cleanups, returned, skipped,
                   writes, dispatched, wins, handled, firstRun, calls, query, tracker, entryVars>>

\* the caller of start() has control again: start() runs without a break
\* to its await, and the first call of processNextChunk (manager.ts:194) is
\* made on the way, so the first chunk is posted, or the generator found
\* done, before any other method of the manager can be called
CallerHasControl ==
    /\ proc = "alive"
    /\ startState \in {"awaitingChunks", "awaitingCleanup"}
    /\ dispatched # <<>> \/ isGeneratorExhausted

\* stop() is called during a run: isRunning = false, setStatus('paused')
Stop ==
    /\ CallerHasControl
    /\ isRunning
    /\ startState = "awaitingChunks"
    /\ isRunning' = FALSE
    /\ state' = setStatus(state, "paused")
    /\ file' = saveProgress(state')
    /\ writes' = Append(writes, state'.lastProcessedIndex)
    /\ UNCHANGED <<genVars, execution, proc, isGeneratorExhausted, workers,
                   terminated, activeTasks, posted, results, currentIndex,
                   chunkId, loop, startState, cleanups, returned, skipped,
                   dispatched, wins, handled, firstRun, calls, query, tracker, entryVars>>

\* gracefulShutdown() is called during a run: isRunning = false,
\* setStatus('paused'); with no active task the while loop is passed at once
\* and cleanup() calls terminate() on every worker
GracefulShutdown ==
    /\ CallerHasControl
    /\ calls = NoCalls
    /\ isRunning' = FALSE
    /\ state' = setStatus(state, "paused")
    /\ file' = saveProgress(state')
    /\ writes' = Append(writes, state'.lastProcessedIndex)
    /\ IF activeTasks = {}
       THEN /\ calls' = [calls EXCEPT !.shutdown = "cleanup"]
            /\ terminated' = terminated \cup Range(workers)
       ELSE /\ calls' = [calls EXCEPT !.shutdown = "waiting"]
            /\ terminated' = terminated
    /\ UNCHANGED <<genVars, execution, proc, isGeneratorExhausted, workers,
                   activeTasks, posted, results, currentIndex, chunkId, loop,
                   startState, cleanups, returned, skipped, dispatched, wins,
                   handled, firstRun, query, tracker, entryVars>>

\* the timer of gracefulShutdown's while loop fires with no active task
\* left (with tasks left it is set again): cleanup() calls terminate() on
\* every worker
ShutdownCleanup ==
    /\ proc = "alive"
    /\ calls.shutdown = "waiting"
    /\ activeTasks = {}
    /\ calls' = [calls EXCEPT !.shutdown = "cleanup"]
    /\ terminated' = terminated \cup Range(workers)
    /\ UNCHANGED <<genVars, execution, proc, file, state, isRunning,
                   isGeneratorExhausted, workers, activeTasks, posted, results,
                   currentIndex, chunkId, loop, startState, cleanups, returned,
                   skipped, writes, dispatched, wins, handled, firstRun, query,
                   tracker, entryVars>>

\* the cleanup() of gracefulShutdown continues after its await, and
\* gracefulShutdown() resolves
ShutdownResolves ==
    /\ proc = "alive"
    /\ calls.shutdown = "cleanup"
    /\ calls' = [calls EXCEPT !.shutdown = "resolved"]
    /\ workers' = <<>>
    /\ activeTasks' = {}
    /\ UNCHANGED <<genVars, execution, proc, file, state, isRunning,
                   isGeneratorExhausted, terminated, posted, results,
                   currentIndex, chunkId, loop, startState, cleanups, returned,
                   skipped, writes, dispatched, wins, handled, firstRun, query,
                   tracker, entryVars>>

\* start() is called while an earlier start() has not settled: it throws
\* when isRunning is set, and begins a second run otherwise.  What the two
\* runs then do together is not followed
StartDuringRun ==
    /\ CallerHasControl
    /\ calls.secondStart = "none"
    /\ IF isRunning
       THEN /\ calls' = [calls EXCEPT !.secondStart = "threw"]
            /\ UNCHANGED <<file, state, isRunning, workers, loop, startState, writes>>
       ELSE /\ calls' = [calls EXCEPT !.secondStart = "accepted"]
            /\ isRunning' = TRUE
            /\ state' = setStatus(state, "running")
            /\ file' = saveProgress(state')
            /\ writes' = Append(writes, state'.lastProcessedIndex)
            /\ workers' = workers \o [i \in 1..options.numWorkers |-> i]
            /\ loop' = "overlapping"
            /\ startState' = "overlapping"
    /\ UNCHANGED <<genVars, execution, proc, isGeneratorExhausted, terminated,
                   activeTasks, posted, results, currentIndex, chunkId,
                   cleanups, returned, skipped, dispatched, wins, handled,
                   firstRun, query, tracker, entryVars>>

\* the process is killed; only the progress file survives
Crash ==
    /\ proc = "alive"
    /\ execution = "first"
    /\ startState # "returned"
    /\ proc' = "crashed"
    /\ UNCHANGED <<genVars, execution, file, state, isRunning,
                   isGeneratorExhausted, workers, terminated, activeTasks,
                   posted, results, currentIndex, chunkId, loop, startState,
                   cleanups, returned, skipped, writes, dispatched, wins,
                   handled,
                   firstRun, calls, query, tracker, entryVars>>

\* the tool is run again on the same phrase: with --resume it resumes from
\* the lastProcessedIndex of the progress file, without it it starts afresh
Relaunch(resume) ==
    /\ execution = "first"
    /\ proc = "crashed" \/ startState = "returned"
    /\ execution' = "second"
    /\ proc' = "alive"
    /\ options' = [options EXCEPT !.resumeFromIndex =
                       IF resume THEN loadProgress(file).lastProcessedIndex ELSE 0]
    /\ firstRun' = [tuples |-> TuplesOfAll(Range(dispatched)),
                    inFlight |-> TuplesOfAll(activeTasks),
                    fresh |-> options.resumeFromIndex = 0,
                    crashed |-> proc = "crashed",
                    resumed |-> resume]
    /\ LET m == Construct(options', stream, file)
       IN  /\ generator' = m.generator
           /\ state' = m.state
           /\ file' = m.file
           /\ writes' = m.writes
           /\ skipped' = m.skipped
    /\ isRunning' = FALSE
    /\ isGeneratorExhausted' = FALSE
    /\ workers' = <<>>
    /\ terminated' = {}
    /\ activeTasks' = {}
    /\ posted' = {}
    /\ results' = NoResults
    /\ currentIndex' = 0
    /\ chunkId' = 0
    /\ loop' = "none"
    /\ startState' = "notCalled"
    /\ cleanups' = 0
    /\ returned' = NoResults
    /\ dispatched' = <<>>
    /\ wins' = <<>>
    /\ handled' = <<>>
    /\ calls' = NoCalls
    /\ UNCHANGED <<stream, emitted, yields, query, tracker, entryVars>>

\* the steps of one execution in which start() is called once
RunStep ==
    \/ Start
    \/ PollNoWorker
    \/ Dispatch
    \/ Exhausted
    \/ WaitActive
    \/ WaitDone
    \/ \E task \in posted, type \in ResultTypes : HandleWorkerResult(task, type)
    \/ CleanupAfterWin
    \/ StartReturns

Init == InitManager

Next ==
    \/ RunStep
    \/ StartAgain
    \/ PollExhausted
    \/ Crash
    \/ \E resume \in Booleans : Relaunch(resume)

Spec == Init /\ [][Next]_vars

\* one execution in which the caller of start() may call stop()
StopStep ==
    \/ RunStep
    \/ Stop

StopSpec == Init /\ [][StopStep]_vars

\* one execution, start() called once, the process not killed: timers fire,
\* workers answer and awaited promises continue
FairSpec == Init /\ [][RunStep]_vars /\ WF_vars(RunStep)

\* one execution in which the caller of start() may call gracefulShutdown()
ShutdownStep ==
    \/ RunStep
    \/ GracefulShutdown
    \/ ShutdownCleanup
    \/ ShutdownResolves

ShutdownSpec == Init /\ [][ShutdownStep]_vars

\* one execution in which the caller of start() may call stop(),
\* gracefulShutdown() and start() again
OverlapStep ==
    \/ ShutdownStep
    \/ Stop
    \/ StartDuringRun

OverlapSpec == Init /\ [][OverlapStep]_vars

\* one execution in which a worker may exit before it answers
ExitStep ==
    \/ RunStep
    \/ WorkerExits

\* timers fire, live workers answer and awaited promises continue; whether
\* a worker exits is not up to the program
ExitSpec == Init /\ [][ExitStep]_vars /\ WF_vars(RunStep)

(***************************************************************************)
(* worker.ts: the handler of one process_chunk message.  The phrases the   *)
(* derivation libraries reject, and what the balance request of each       *)
(* address meets, are the surroundings of the message.                     *)
(***************************************************************************)
\* the phrase of the messages: a word and a missing word
WorkerPartial ==
    createPartialWithCandidates(<<StringToken(wordList[1]), UndefinedToken>>)

\* getBtcWalletAddress / getEthWalletAddresses: the address object of a
\* phrase; two phrases never share an address
PossibleAddress(chain, fullMnemonic) ==
    IF chain = "bitcoin" THEN [btc |-> fullMnemonic] ELSE [eth |-> fullMnemonic]

\* the for loop of createPossibleAddressesAndCombinations: a tuple whose
\* derivation throws is skipped, the others push their address and then
\* themselves
RECURSIVE createPossibleAddressesAndCombinations(_, _, _, _)

RECURSIVE createPossibleAddressesAndCombinationsKeepingAll(_, _, _, _)
\* mutant of createPossibleAddressesAndCombinations: the tuple is pushed
\* before its derivation is tried
createPossibleAddressesAndCombinationsKeepingAll(partialWithCandidates, combinationsOfCandidates, chain, underivable) ==
    IF combinationsOfCandidates = <<>>
    THEN [addressChunks |-> <<>>, combinationChunks |-> <<>>]
    ELSE LET combination == Head(combinationsOfCandidates)
             fullMnemonic == getFullMnemonicFromCandidates(partialWithCandidates, combination)
             later == createPossibleAddressesAndCombinationsKeepingAll(
                          partialWithCandidates, Tail(combinationsOfCandidates),
                          chain, underivable)
         IN  [addressChunks |->
                  (IF fullMnemonic \in underivable THEN <<>>
                   ELSE <<PossibleAddress(chain, fullMnemonic)>>) \o later.addressChunks,
              combinationChunks |-> <<combination>> \o later.combinationChunks]

createPossibleAddressesAndCombinations(partialWithCandidates, combinationsOfCandidates, chain, underivable) ==
    IF combinationsOfCandidates = <<>>
    THEN [addressChunks |-> <<>>, combinationChunks |-> <<>>]
    ELSE LET combination == Head(combinationsOfCandidates)
             fullMnemonic == getFullMnemonicFromCandidates(partialWithCandidates, combination)
             later == createPossibleAddressesAndCombinations(
                          partialWithCandidates, Tail(combinationsOfCandidates),
                          chain, underivable)
         IN  IF fullMnemonic \in underivable
             THEN later
             ELSE [addressChunks |->
                       <<PossibleAddress(chain, fullMnemonic)>> \o later.addressChunks,
                   combinationChunks |-> <<combination>> \o later.combinationChunks]

\* the callback of findIndex: 'btc' in address ? address.btc === publicKey
\* : address.eth === publicKey
IsPublicKeyOf(address, publicKey) ==
    IF "btc" \in DOMAIN address THEN address.btc = publicKey
    ELSE address.eth = publicKey

\* mutant of findIndex: a match at index 0 is reported as no match
findIndexAfterFirst(addressChunks, publicKey) == LET matching == {n \in 2..Len(addressChunks) : IsPublicKeyOf(addressChunks[n], publicKey)} IN IF matching = {} THEN -1 ELSE (CHOOSE n \in matching : \A k \in matching : n <= k) - 1

\* addressChunks.findIndex(...): the index, counted from 0, of the first
\* address equal to publicKey, or -1
findIndex(addressChunks, publicKey) ==
    LET matching == {n \in 1..Len(addressChunks) : IsPublicKeyOf(addressChunks[n], publicKey)}
    IN  IF matching = {} THEN -1
        ELSE (CHOOSE n \in matching : \A k \in matching : n <= k) - 1

\* the messages a worker receives, with their surroundings.  publicKey is a
\* string: the empty one is as falsy as undefined
InitWorker ==
    /\ \E n \in 0..MaxAddresses, chain \in {"bitcoin", "mainnet"}, queryBalances \in Booleans :
           LET tuples == permutationsGenerator(WorkerPartial, TRUE, <<>>, 0)
               phrase(k) == getFullMnemonicFromCandidates(WorkerPartial, tuples[k])
           IN  /\ n <= Len(tuples)
               /\ \E publicKey \in {<<>>} \cup {phrase(k) : k \in 1..Len(tuples)},
                     underivable \in SUBSET {phrase(k) : k \in 1..n} :
                      \E transport \in (IF queryBalances
                                        THEN [1..(n - Cardinality(underivable)) ->
                                                 IF chain = "bitcoin" THEN BtcTransport
                                                 ELSE EthTransport]
                                        ELSE {<<>>}) :
                          worker = [phase |-> "posted",
                                    message |-> [partialWithCandidates |-> WorkerPartial,
                                                 combinationsChunk |-> SubSeq(tuples, 1, n),
                                                 chain |-> chain,
                                                 publicKey |-> publicKey,
                                                 queryBalances |-> queryBalances],
                                    underivable |-> underivable,
                                    transport |-> transport,
                                    addressChunks |-> <<>>,
                                    combinationChunks |-> <<>>,
                                    reply |-> <<>>]
    /\ resolve = NoResolve
    /\ entry = NoEntry
    /\ recovery = NoRecovery
    /\ IdleProgram

\* the handler up to its first reply or its await of queryAddressBalances
WorkerReceive ==
    /\ worker.phase = "posted"
    /\ LET message == worker.message
           made == createPossibleAddressesAndCombinations(
                       message.partialWithCandidates, message.combinationsChunk,
                       message.chain, worker.underivable)
           matchingIndex == findIndex(made.addressChunks, message.publicKey)
           derived == [worker EXCEPT !.addressChunks = made.addressChunks,
                                     !.combinationChunks = made.combinationChunks]
       IN  IF message.publicKey # <<>> /\ matchingIndex # -1
           THEN /\ worker' = [derived EXCEPT
                                 !.phase = "replied",
                                 !.reply = [type |-> "match_found",
                                            addresses |-> <<made.addressChunks[matchingIndex + 1]>>,
                                            combinations |-> <<made.combinationChunks[matchingIndex + 1]>>]]
                /\ query' = query
           ELSE IF message.queryBalances
           THEN /\ worker' = [derived EXCEPT !.phase = "querying"]
                /\ query' = [chain |-> message.chain, transport |-> worker.transport,
                             i |-> 0, balances |-> <<>>, loaded |-> <<>>,
                             status |-> "running", calls |-> <<>>]
           ELSE /\ worker' = [derived EXCEPT
                                 !.phase = "replied",
                                 !.reply = [type |-> "chunk_complete",
                                            addresses |-> made.addressChunks,
                                            combinations |-> made.combinationChunks]]
                /\ query' = query
    /\ UNCHANGED <<genVars, managerVars, tracker, resolve, entry, recovery>>

\* the handler after its await: the catch posts 'error' when the query
\* threw, a loaded wallet is reported, or the chunk is complete
WorkerReply ==
    /\ worker.phase = "querying"
    /\ query.status \in {"returned", "threw"}
    /\ worker' = [worker EXCEPT
                     !.phase = "replied",
                     !.reply =
                         IF query.status = "threw"
                         THEN [type |-> "error"]
                         ELSE IF Len(query.loaded) > 0
                         THEN [type |-> "loaded_wallet_found",
                               addresses |-> [k \in 1..Len(query.loaded) |->
                                                 worker.addressChunks[query.loaded[k] + 1]],
                               combinations |-> [k \in 1..Len(query.loaded) |->
                                                    worker.combinationChunks[query.loaded[k] + 1]]]
                         ELSE [type |-> "chunk_complete",
                               addresses |-> worker.addressChunks,
                               combinations |-> worker.combinationChunks]]
    /\ UNCHANGED <<genVars, managerVars, query, tracker, resolve, entry, recovery>>

WorkerStep ==
    \/ WorkerReceive
    \/ QueryStep
    \/ WorkerReply

WorkerSpec == InitWorker /\ [][WorkerStep]_vars

(***************************************************************************)
(* Claims about the generator.                                             *)
(***************************************************************************)
\* the mixed-radix basis (c_0, ..., c_{K-1}) of a resolved phrase
Basis(partialWithCandidates) ==
    [k \in 1..NumMissing(partialWithCandidates) |->
        Len(Candidates(partialWithCandidates, k - 1))]

\* the position of word w in the candidate list l (0 when absent)
IndexIn(l, w) ==
    IF ArrayIncludes(l, w) THEN CHOOSE i \in 1..Len(l) : l[i] = w ELSE 0

\* the per-position candidate indices of a tuple
IndexVector(partialWithCandidates, tuple) ==
    [k \in 1..Len(tuple) |->
        IndexIn(Candidates(partialWithCandidates, k - 1), tuple[k])]

\* u comes strictly before v in lexicographic order, position 1 first
LexLess(u, v) ==
    \E k \in 1..Len(u) :
        /\ k <= Len(v)
        /\ u[k] < v[k]
        /\ \A j \in 1..(k - 1) : u[j] = v[j]

\* C1: in repeating mode with K >= 1 unknown positions, the i-th tuple the
\* generator streams (sentinel excluded, chunks concatenated) is
\* getCombinationAtIndex(partial, true, i), and a generator that has returned
\* has streamed every index of [0, prod c_k).
C1_IndexingBijection ==
    (options.repeatingWords /\ NumMissing(options.partialWithCandidates) >= 1)
        => /\ \A i \in 1..Len(emitted) :
                  emitted[i] = getCombinationAtIndex(
                                   options.partialWithCandidates, TRUE, i - 1)
           /\ generator.phase = "done"
                  => Len(emitted) = Product(Basis(options.partialWithCandidates))

\* C1 witness: a finished repeating stream over two unknown positions of
\* different radix
C1_Witness ==
    /\ options.repeatingWords
    /\ NumMissing(options.partialWithCandidates) = 2
    /\ Basis(options.partialWithCandidates)[1] # Basis(options.partialWithCandidates)[2]
    /\ generator.phase = "done"
    /\ Len(emitted) >= 6
    /\ Len(emitted) = Product(Basis(options.partialWithCandidates))

\* C2: in both modes the streamed tuples are in strictly increasing
\* lexicographic order of their per-position candidate indices (position 0
\* slowest, each position in word list order): every tuple is made of
\* candidates of its positions and comes strictly after the tuple streamed
\* before it, and no tuple is streamed twice.
C2_LexicographicOrder ==
    /\ \A i \in 1..Len(emitted) :
           /\ \A k \in 1..Len(emitted[i]) :
                  IndexVector(options.partialWithCandidates, emitted[i])[k] >= 1
           /\ i > 1 =>
                  LexLess(IndexVector(options.partialWithCandidates,
                                      emitted[i - 1]),
                          IndexVector(options.partialWithCandidates, emitted[i]))
    /\ \A i, j \in 1..Len(emitted) : i < j => emitted[i] # emitted[j]

\* C2 witness: a finished stream without repetition over two unknown
\* positions from which the filter has removed tuples
C2_Witness ==
    /\ ~options.repeatingWords
    /\ NumMissing(options.partialWithCandidates) = 2
    /\ generator.phase = "done"
    /\ Len(emitted) >= 3
    /\ Len(emitted) < Product(Basis(options.partialWithCandidates))

(***************************************************************************)
(* Claims about the worker manager.                                        *)
(***************************************************************************)
\* C3: every chunk handed to a worker holds at most options.chunkSize tuples,
\* and exactly that many unless it is the last chunk of the run.
C3_ChunkSize ==
    \A i \in 1..Len(dispatched) :
        /\ dispatched[i].size <= options.chunkSize
        /\ \/ dispatched[i].size = options.chunkSize
           \/ dispatched[i].first + dispatched[i].size = Len(stream)

\* C4: a manager constructed with resumeFromIndex = s, 0 < s < N, has
\* discarded exactly s tuples, so the first chunk it hands out starts with
\* the tuple at index s; for s = N - 1 exactly one tuple has been handed out
\* when the generator is found exhausted.
C4_ResumePosition ==
    (0 < options.resumeFromIndex /\ options.resumeFromIndex < Len(stream))
        => /\ skipped = options.resumeFromIndex
           /\ Len(dispatched) >= 1
                  => dispatched[1].first = options.resumeFromIndex
           /\ (options.resumeFromIndex = Len(stream) - 1 /\ isGeneratorExhausted)
                  => Cardinality(TuplesOfAll(Range(dispatched))) = 1

\* C5: when a fresh run crashes and is resumed from the lastProcessedIndex of
\* the progress file, the tuples handed to workers in both executions belong
\* to chunks that were in flight at the crash, and once the second execution
\* has returned without a win the two executions have handed out every tuple.
C5_CrashResume ==
    (execution = "second" /\ firstRun.fresh /\ firstRun.crashed
                          /\ firstRun.resumed)
        => /\ (TuplesOfAll(Range(dispatched)) \cap firstRun.tuples)
                  \subseteq firstRun.inFlight
           /\ (startState = "returned" /\ wins = <<>>)
                  => (TuplesOfAll(Range(dispatched)) \cup firstRun.tuples)
                         = 0..(Len(stream) - 1)

\* C6: within one run the lastProcessedIndex values written to the progress
\* file never decrease.
C6_MonotoneProgress ==
    \A i, j \in 1..Len(writes) : i < j => writes[i] <= writes[j]

\* C7: whenever the persisted index is i, no chunk handed to a worker whose
\* interval ends at or before i is still in flight.
C7_ContiguousPrefix ==
    file.exists =>
        \A task \in activeTasks :
            task.endIndex > loadProgress(file).lastProcessedIndex

\* C8: when start() has returned normally after the generator was exhausted
\* without a win, the persisted lastProcessedIndex equals totalCombinations.
C8_CompletionIndex ==
    (startState = "returned" /\ isGeneratorExhausted /\ wins = <<>>)
        => loadProgress(file).lastProcessedIndex = options.totalCombinations

\* C9: after a win result has been handled, start() eventually returns that
\* win and the persisted status is 'completed'.
C9_WinReturns ==
    (wins # <<>>)
        ~> (/\ wins # <<>>
            /\ startState = "returned"
            /\ returned.items = <<wins[1]>>
            /\ file.data.status = "completed")

\* C11: an 'error' result is not fatal, whatever the options: handling it
\* throws nothing, leaves this.results as it was and writes the chunk's
\* endIndex as lastProcessedIndex; the run goes on.
C11_ErrorNonFatal ==
    \A i \in 1..Len(handled) :
        handled[i].type = "error"
            => /\ ~handled[i].threw
               /\ handled[i].after = handled[i].before
               /\ handled[i].written = handled[i].endIndex

\* every tuple handed to a worker was handed out once, and a run that did not
\* resume has handed out the whole enumeration
AllDispatchedOnce ==
    /\ \A i, j \in 1..Len(dispatched) :
           i < j => TuplesOf(dispatched[i]) \cap TuplesOf(dispatched[j]) = {}
    /\ options.resumeFromIndex = 0
           => TuplesOfAll(Range(dispatched)) = 0..(Len(stream) - 1)

\* C12: a run whose workers answer every chunk and in which no chunk yields a
\* win terminates: start() eventually returns with status 'completed', every
\* tuple having been handed to a worker exactly once.
C12_NoWinTerminates ==
    <>(\/ wins # <<>>
       \/ /\ startState = "returned"
          /\ file.data.status = "completed"
          /\ AllDispatchedOnce)

(***************************************************************************)
(* Claims about uniqueness and the upper bound.                            *)
(***************************************************************************)
\* the positions of the full phrase that hold a Fixed word
FixedPositions(partialWithCandidates) ==
    {i \in 1..Len(partialWithCandidates) :
        partialWithCandidates[i].kind = "string"}

\* C13: without repetition, the full phrase assembled from the Fixed slots
\* and an emitted tuple contains no word more than once.
C13_NoWordTwice ==
    ~options.repeatingWords
        => \A n \in 1..Len(emitted) :
               LET phrase == FullMnemonicWords(options.partialWithCandidates,
                                               emitted[n])
               IN  \A i, j \in 1..Len(phrase) : i < j => phrase[i] # phrase[j]

\* C13 as amended: without repetition, a word occurs twice in the assembled
\* phrase only at two Fixed slots; a word of the emitted tuple occurs once.
C13_NoTupleWordTwice ==
    ~options.repeatingWords
        => \A n \in 1..Len(emitted) :
               LET phrase == FullMnemonicWords(options.partialWithCandidates,
                                               emitted[n])
               IN  \A i, j \in 1..Len(phrase) :
                       (i < j /\ phrase[i] = phrase[j])
                           => {i, j} \subseteq
                                  FixedPositions(options.partialWithCandidates)

\* C13 witness: a tuple emitted without repetition for a phrase that has a
\* Fixed word, an unknown position and a position with candidates
C13_Witness ==
    /\ ~options.repeatingWords
    /\ Len(options.partialWithCandidates) = 3
    /\ Cardinality(FixedPositions(options.partialWithCandidates)) = 1
    /\ \E i \in 1..3 : options.partialWithCandidates[i].kind = "array"
    /\ \E i \in 1..3 : options.partialWithCandidates[i].kind = "undefined"
    /\ Len(emitted) >= 1
    /\ generator.phase = "done"

\* the Fixed words of a resolved phrase
FixedWords(partialWithCandidates) ==
    {partialWithCandidates[i].word : i \in FixedPositions(partialWithCandidates)}

\* C14: without repetition no emitted tuple contains a word equal to a Fixed
\* word of the phrase, and none carries the same word at two unknown positions.
C14_TupleAvoidsFixedAndItself ==
    ~options.repeatingWords
        => \A n \in 1..Len(emitted) :
               /\ \A k \in 1..Len(emitted[n]) :
                      emitted[n][k] \notin FixedWords(options.partialWithCandidates)
               /\ \A k, l \in 1..Len(emitted[n]) :
                      k < l => emitted[n][k] # emitted[n][l]

\* C14 witness: the finished stream for one Fixed word and two unknown
\* positions, without repetition
C14_Witness ==
    /\ ~options.repeatingWords
    /\ Len(options.partialWithCandidates) = 3
    /\ options.partialWithCandidates[1].kind = "string"
    /\ options.partialWithCandidates[2].kind = "undefined"
    /\ options.partialWithCandidates[3].kind = "undefined"
    /\ Len(emitted) >= 2
    /\ generator.phase = "done"

\* U: the number of Unknown slots
UnknownCount(partialWithCandidates) ==
    Cardinality({i \in 1..Len(partialWithCandidates) :
                    partialWithCandidates[i].kind = "undefined"})

\* the sizes of the prefix-candidate lists, in phrase order
PrefixSizes(partialWithCandidates) ==
    LET arrays == SelectSeq(partialWithCandidates, LAMBDA w : w.kind = "array")
    IN  [i \in 1..Len(arrays) |-> Len(arrays[i].list)]

\* C15: with repetition the number of tuples a finished generator has
\* streamed is getUpperBound(partial, true) = W^U times the product of the
\* prefix-candidate list sizes, W being the size of the word list.
C15_RepeatingCount ==
    (options.repeatingWords /\ generator.phase = "done")
        => /\ Len(emitted) = getUpperBound(options.partialWithCandidates, TRUE)
           /\ Len(emitted) =
                  Power(NumWords, UnknownCount(options.partialWithCandidates))
                      * Product(PrefixSizes(options.partialWithCandidates))

\* C15 witness: a finished repeating stream over two Unknown slots and a
\* prefix-candidate slot
C15_Witness ==
    /\ options.repeatingWords
    /\ generator.phase = "done"
    /\ UnknownCount(options.partialWithCandidates) = 2
    /\ Len(PrefixSizes(options.partialWithCandidates)) = 1
    /\ Len(emitted) = 2 * NumWords * NumWords

\* C16: without repetition getUpperBound(partial, false) is an upper bound
\* on the number of tuples the generator emits, also when Fixed words repeat.
C16_UpperBound ==
    ~options.repeatingWords
        => Len(emitted) <= getUpperBound(options.partialWithCandidates, FALSE)

\* C17: without repetition getUpperBound is the product of the
\* prefix-candidate list sizes times the product over j in 0..U-1 of
\* (W - F - j), F counting the Fixed slots only.
C17_FixedSlotsOnly ==
    ~options.repeatingWords
        => options.totalCombinations =
               Product(PrefixSizes(options.partialWithCandidates))
                   * FallingProduct(
                         NumWords - Cardinality(
                             FixedPositions(options.partialWithCandidates)),
                         UnknownCount(options.partialWithCandidates))

\* the positions of the phrase that hold a list of prefix candidates
PrefixPositions(partialWithCandidates) ==
    {i \in 1..Len(partialWithCandidates) :
        partialWithCandidates[i].kind = "array"}

\* C17 as amended: F counts every slot that is not Unknown, the Fixed slots
\* and the prefix-candidate slots; the sizes of the candidate lists are not
\* subtracted.
C17_FixedAndPrefixSlots ==
    ~options.repeatingWords
        => options.totalCombinations =
               Product(PrefixSizes(options.partialWithCandidates))
                   * FallingProduct(
                         NumWords
                             - Cardinality(
                                   FixedPositions(options.partialWithCandidates))
                             - Cardinality(
                                   PrefixPositions(options.partialWithCandidates)),
                         UnknownCount(options.partialWithCandidates))

\* C17 witness: a manager built without repetition for a phrase with a
\* prefix-candidate slot and an Unknown slot
C17_Witness ==
    /\ ~options.repeatingWords
    /\ Cardinality(PrefixPositions(options.partialWithCandidates)) = 1
    /\ UnknownCount(options.partialWithCandidates) = 1
    /\ options.totalCombinations = 2 * (NumWords - 1)
    /\ startState = "awaitingChunks"

(***************************************************************************)
(* Claims about dispatch.                                                  *)
(***************************************************************************)
\* the tasks assigned to worker w
TasksOf(w) == {task \in activeTasks : task.worker = w}

\* C18: every worker has at most one chunk assigned, so there are at most
\* numWorkers active tasks, and processNextChunk calls next() on the
\* generator only when some worker has no chunk assigned.
C18_OneChunkPerWorker ==
    /\ [](/\ \A w \in Range(workers) : Cardinality(TasksOf(w)) <= 1
          /\ Cardinality(activeTasks) <= options.numWorkers)
    /\ [][(generator' # generator /\ execution' = execution)
              => \E w \in Range(workers) : TasksOf(w) = {}]_vars

\* C18 witness: with two workers, one has the chunk and the other is idle
\* when the generator is found exhausted
C18_Witness ==
    /\ options.numWorkers = 2
    /\ Cardinality(activeTasks) = 1
    /\ \E w \in Range(workers) : Cardinality(TasksOf(w)) = 1
    /\ \E w \in Range(workers) : TasksOf(w) = {}
    /\ isGeneratorExhausted
    /\ Len(dispatched) = 1

\* C19: chunk 0 starts at resumeFromIndex, every chunk ends at its start plus
\* its tuple count, every chunk starts where the one before it ended, so the
\* intervals are dispatched in increasing order without gap or overlap, and
\* the result handled for a chunk carries the interval assigned at dispatch.
C19_ContiguousIntervals ==
    /\ [](/\ \A i \in 1..Len(dispatched) :
                /\ dispatched[i].chunkId = i - 1
                /\ dispatched[i].endIndex
                       = dispatched[i].startIndex + dispatched[i].size
                /\ i = 1 => dispatched[i].startIndex = options.resumeFromIndex
                /\ i > 1 => dispatched[i].startIndex = dispatched[i-1].endIndex
          /\ \A i \in 1..Len(handled) :
                /\ handled[i].startIndex = handled[i].task.startIndex
                /\ handled[i].endIndex = handled[i].task.endIndex
                /\ handled[i].chunkId = handled[i].task.chunkId)
    /\ [][Len(dispatched') > Len(dispatched)
              => /\ dispatched'[Len(dispatched')].startIndex = currentIndex
                 /\ currentIndex' = dispatched'[Len(dispatched')].endIndex]_vars

\* C19 witness: a resumed run dispatched a chunk of two tuples and handled
\* the result the worker returned for it
C19_Witness ==
    /\ options.resumeFromIndex > 0
    /\ Len(dispatched) = 1
    /\ dispatched[1].size = 2
    /\ Len(handled) = 1
    /\ handled[1].task = dispatched[1]
    /\ handled[1].endIndex = options.resumeFromIndex + 2

(***************************************************************************)
(* Claims about the balance queries.                                       *)
(***************************************************************************)
\* C20: queryBtcBalance and queryEthBalance never fail: whatever the
\* transport does, the call returns an integer >= 0, and it returns 0 when
\* the transport failed.
C20_QueriesNeverFail ==
    \A n \in 1..Len(query.calls) :
        LET call == query.calls[n]
        IN  /\ ~call.result.threw
            /\ call.result.value >= 0
            /\ call.transport.kind # "success" => call.result.value = 0

\* C23: once stop() has been called during a run (the status is 'paused'),
\* the coordinator pulls no chunk from the generator and posts no
\* process_chunk message; only the chunks in flight are completed.
C23_NoDispatchAfterStop ==
    [][(state.status = "paused" /\ execution' = execution)
           => /\ generator'.pos = generator.pos
              /\ posted' \subseteq posted
              /\ dispatched' = dispatched]_vars

\* stop() has been called with the chunk in flight, and processNextChunk
\* has asked the generator again
C23_Witness ==
    /\ state.status = "paused"
    /\ activeTasks # {}
    /\ isGeneratorExhausted

(***************************************************************************)
(* Claims about the progress tracker.                                      *)
(***************************************************************************)
\* C21: a tracker constructed on the path after a saveProgress that wrote
\* the file has the saved state, field by field.
C21_SaveLoadRoundTrip ==
    (tracker.op = "load" /\ tracker.written) => state = tracker.saved

\* C21 witness: a state with a two-digit index, a two-digit total, status
\* 'error' and an error string was saved and loaded again
C21_Witness ==
    /\ tracker.op = "load"
    /\ tracker.written
    /\ tracker.saved.lastProcessedIndex = MaxIndex
    /\ tracker.saved.totalCombinations = MaxIndex
    /\ tracker.saved.status = "error"
    /\ tracker.saved.error = "e"
    /\ tracker.saved.chunksProcessed = 1
    /\ state = tracker.saved

\* a property that is missing or is not a decimal number
Unparseable(value) ==
    value = Absent \/ \E k \in 1..Len(value) : ~IsDigit(value[k])

\* the file on the path cannot be loaded: it is missing, is not JSON, or its
\* lastProcessedIndex or totalCombinations is not parseable
Unloadable(progressFile) ==
    \/ ~progressFile.exists
    \/ ~progressFile.json
    \/ Unparseable(progressFile.data.lastProcessedIndex)
    \/ Unparseable(progressFile.data.totalCombinations)

\* C22: constructing a tracker on a path whose file is missing, is not JSON
\* or has no parseable lastProcessedIndex / totalCombinations raises nothing
\* and gives the fresh state.
C22_FreshStateOnBadFile ==
    (tracker.op = "load" /\ Unloadable(file))
        => /\ ~tracker.raised
           /\ state = FreshState

\* C22 witness: a JSON file with status 'completed' whose totalCombinations
\* is not a number was found, and the tracker has the fresh state
C22_Witness ==
    /\ tracker.op = "load"
    /\ file.exists
    /\ file.json
    /\ file.data.status = "completed"
    /\ ~Unparseable(file.data.lastProcessedIndex)
    /\ Unparseable(file.data.totalCombinations)
    /\ state = FreshState

\* C24: when a write of the progress file fails, the status becomes 'error'
\* and the call raises, so that start() rejects.
C24_WriteFailureFatal ==
    (tracker.op = "save" /\ ~tracker.written)
        => /\ state.status = "error"
           /\ tracker.raised

(***************************************************************************)
(* Claims about createPartialWithCandidates.                               *)
(***************************************************************************)
\* the words of the word list that start with s, in word list order
PrefixMatches(s) == SelectSeq(wordList, LAMBDA w : StartsWith(w, s))

IsWord(s) == \E n \in 1..Len(wordList) : wordList[n] = s

\* C27: for a literal token that is not a word and is the prefix of no word,
\* createPartialWithCandidates fails with an error instead of producing a
\* slot for the position.
C27_InvalidWordFails ==
    \A k \in 1..resolve.i :
        LET token == resolve.partialMnemonic[k]
        IN  (token.isString /\ ~IsWord(token.s) /\ Len(PrefixMatches(token.s)) = 0)
                => /\ resolve.threw
                   /\ Len(resolve.partialWithCandidates) < k

\* C28: createPartialWithCandidates returns one slot per token in the order
\* of the tokens: the missing word gives Unknown, a word gives Fixed(word)
\* even when it is a proper prefix of other words, a non-word with one
\* prefix match gives Fixed(match), and a non-word with several gives the
\* list of the matches in word list order.
C28_SlotPerToken ==
    /\ Len(resolve.partialWithCandidates) = resolve.i
    /\ resolve.returned => resolve.i = Len(resolve.partialMnemonic)
    /\ \A k \in 1..resolve.i :
           LET token == resolve.partialMnemonic[k]
               slot == resolve.partialWithCandidates[k]
           IN  /\ ~token.isString => slot = UndefinedSlot
               /\ (token.isString /\ IsWord(token.s)) => slot = FixedSlot(token.s)
               /\ (token.isString /\ ~IsWord(token.s) /\ Len(PrefixMatches(token.s)) = 1)
                      => slot = FixedSlot(PrefixMatches(token.s)[1])
               /\ (token.isString /\ ~IsWord(token.s) /\ Len(PrefixMatches(token.s)) > 1)
                      => slot = ArraySlot(PrefixMatches(token.s))

\* C28 witness: a call has returned for a word that is a proper prefix of
\* another word, a prefix of two words and a prefix of one word
C28_Witness ==
    /\ resolve.returned
    /\ resolve.partialMnemonic = <<StringToken(<<"a", "b">>), StringToken(<<"a">>), StringToken(<<"b">>)>>
    /\ resolve.partialWithCandidates = <<FixedSlot(<<"a", "b">>), ArraySlot(<< <<"a", "b">>, <<"a", "b", "c">> >>), FixedSlot(<<"b", "a">>)>>

(***************************************************************************)
(* Claims about recover().                                                 *)
(***************************************************************************)
\* the positions of the slots that are not Fixed, left to right
NonFixedPositions(partialWithCandidates) ==
    SelectSeq([i \in 1..Len(partialWithCandidates) |-> i],
              LAMBDA i : partialWithCandidates[i].kind # "string")

\* C29: for a tuple with one word per non-Fixed slot, the assembled phrase
\* has the length of the resolved phrase, every Fixed position holds its
\* word and the k-th non-Fixed position holds the k-th word of the tuple.
C29_AssembleFillsSlots ==
    \A n \in 1..Len(recovery.derived) :
        LET partialWithCandidates == options.partialWithCandidates
            positions == NonFixedPositions(partialWithCandidates)
            tuple == recovery.derived[n].combination
            phrase == recovery.derived[n].fullMnemonic
        IN  Len(tuple) = Len(positions)
                => /\ Len(phrase) = Len(partialWithCandidates)
                   /\ \A i \in 1..Len(partialWithCandidates) :
                          partialWithCandidates[i].kind = "string"
                              => phrase[i] = partialWithCandidates[i].word
                   /\ \A k \in 1..Len(positions) : phrase[positions[k]] = tuple[k]

\* C29 witness: a phrase was assembled from a prefix-candidate slot, a Fixed
\* slot and an Unknown slot, and the looked-for phrase was reproduced
C29_Witness ==
    /\ recovery.phase = "returned"
    /\ Len(options.partialWithCandidates) = 3
    /\ options.partialWithCandidates[1].kind = "array"
    /\ options.partialWithCandidates[2].kind = "string"
    /\ options.partialWithCandidates[3].kind = "undefined"
    /\ LET last == recovery.derived[Len(recovery.derived)]
       IN  /\ Len(last.combination) = 2
           /\ last.fullMnemonic = <<last.combination[1], options.partialWithCandidates[2].word, last.combination[2]>>
           /\ last.fullMnemonic = recovery.result

\* C30: for a phrase without unknown positions the enumerator yields exactly
\* one tuple, the empty one, and recover() derives the phrase exactly once.
C30_ZeroUnknownDerivedOnce ==
    (/\ recovery.phase \in {"returned", "ended"}
     /\ NumMissing(options.partialWithCandidates) = 0)
        => /\ stream = << <<>> >>
           /\ Len(recovery.derived) = 1

\* C25: a command line run with --resume on a progress file with status
\* 'running' or 'paused' and lastProcessedIndex s derives no tuple of the
\* indices [0, s), and when it ends without a result no tuple at an index
\* >= s is the one looked for.
C25_ResumeSkipsProcessed ==
    (/\ recovery.resume
     /\ recovery.phase \in {"loop", "returned", "ended"}
     /\ loadProgress(file).status \in {"running", "paused"})
        => LET s == loadProgress(file).lastProcessedIndex
           IN  /\ \A n \in 1..Len(recovery.derived) :
                      \A j \in 1..Len(stream) :
                          j <= s => recovery.derived[n].combination # stream[j]
               /\ recovery.phase = "ended"
                      => \A j \in 1..Len(stream) :
                             j > s => FullMnemonicWords(options.partialWithCandidates, stream[j]) # recovery.target

(***************************************************************************)
(* Claims about the entry points.                                          *)
(***************************************************************************)
\* C26: an entry point accepts a mnemonic only when its number of tokens is
\* 12, 15, 18, 21 or 24; every other length is rejected before enumeration.
C26_OnlyLegalLengths ==
    entry.outcome = "accepted" => entry.tokens \in {12, 15, 18, 21, 24}

\* the tuples of candidates of a resolved phrase, pruned or not
CandidateTuples(partialWithCandidates) ==
    {t \in [1..NumMissing(partialWithCandidates) -> Range(wordList)] :
        \A d \in 1..NumMissing(partialWithCandidates) :
            t[d] \in Range(Candidates(partialWithCandidates, d - 1))}

C33_ChunksOfRequestedSize ==
    /\ emitted = SubSeq(stream, 1, generator.pos)
    /\ generator.phase = "done" => emitted = stream
    /\ (yields # <<>> /\ yields[1][1] # Undefined)
           => \/ yields[1][2] = yields[1][1]
              \/ /\ generator.phase \in {"tail", "done"}
                 /\ generator.pos = Len(stream)
                 /\ 0 < yields[1][2]
                 /\ yields[1][2] < yields[1][1]

\* a chunk of the size asked for has been returned and tuples are left
C33_Witness ==
    /\ yields # <<>>
    /\ yields[1][1] = MaxChunkSize
    /\ yields[1][2] = MaxChunkSize
    /\ Len(emitted) > MaxChunkSize
    /\ generator.pos < Len(stream)

\* C34: once handleWorkerResult has handled a match_found or a
\* loaded_wallet_found result, the run pulls no further chunk from the
\* generator and posts no further message to a worker, terminated or not.
C34_NoDispatchAfterWin ==
    [][(wins # <<>> /\ execution' = execution)
           => /\ dispatched' = dispatched
              /\ generator'.pos = generator.pos
              /\ posted' \subseteq posted]_vars

\* after a win, with the workers still listed and one of them free,
\* processNextChunk has called next() again
C34_Witness ==
    /\ wins # <<>>
    /\ cleanups > 0
    /\ Len(workers) > 0
    /\ isGeneratorExhausted

\* a task whose worker is gone without an answer and without terminate()
ExitedUnanswered ==
    \E task \in activeTasks : task \notin posted /\ task.worker \notin terminated

\* C35: when a worker exits or crashes without replying to its chunk,
\* start() eventually settles, with status 'error' in the progress file.
C35_ExitedWorkerRejects ==
    ExitedUnanswered
        ~> (startState = "returned" /\ loadProgress(file).status = "error")

\* C36: when gracefulShutdown() has resolved during a run, every chunk
\* dispatched to a worker has had its result handled, while its worker was
\* alive, and its endIndex recorded in the progress file: none was posted
\* and then dropped without a result.
C36_ShutdownDropsNoChunk ==
    calls.shutdown = "resolved"
        => /\ posted = {}
           /\ \A n \in 1..Len(dispatched) :
                  \E h \in 1..Len(handled) :
                      /\ handled[h].task = dispatched[n]
                      /\ handled[h].written = dispatched[n].endIndex

\* gracefulShutdown() has resolved after the result of the chunk came in,
\* and start() has not settled
C36_Witness ==
    /\ calls.shutdown = "resolved"
    /\ Len(dispatched) = 1
    /\ Len(handled) = 1
    /\ wins = <<>>
    /\ state.status = "paused"

\* C38: at most one run is active on a WorkerManager: a call of start()
\* made while an earlier start() has not settled throws, also after stop(),
\* gracefulShutdown() or a handled win.
C38_SecondStartThrows == calls.secondStart # "accepted"

\* C39: a WorkerManager constructed without resumeFromIndex starts from a
\* clean record, whatever the progress file of an earlier run holds: right
\* after construction, in its state and in the file it has written,
\* lastProcessedIndex is 0, chunksProcessed is 0 and there is no error.
C39_FreshRunCleanRecord ==
    (options.resumeFromIndex = 0 /\ startState = "notCalled")
        => /\ state.lastProcessedIndex = 0
           /\ state.chunksProcessed = 0
           /\ state.error = "none"
           /\ loadProgress(file).lastProcessedIndex = 0
           /\ loadProgress(file).chunksProcessed = 0
           /\ loadProgress(file).error = "none"

(***************************************************************************)
(* Claims about the worker.                                                *)
(***************************************************************************)
\* the tuples of the message whose phrase the libraries derive, in the
\* order of the chunk
ValidTuples ==
    SelectSeq(worker.message.combinationsChunk,
              LAMBDA t : getFullMnemonicFromCandidates(worker.message.partialWithCandidates, t)
                             \notin worker.underivable)

\* the address of the n-th valid tuple
AddressOfValid(n) ==
    PossibleAddress(worker.message.chain,
                    getFullMnemonicFromCandidates(worker.message.partialWithCandidates,
                                                  ValidTuples[n]))

\* the positions of the valid list whose address is the publicKey
MatchingValid ==
    {n \in 1..Len(ValidTuples) :
        worker.message.publicKey \in {AddressOfValid(n)[f] : f \in DOMAIN AddressOfValid(n)}}

Matched == worker.message.publicKey # <<>> /\ MatchingValid # {}

\* what the balance request of the n-th valid address gives
BalanceOfValid(n) ==
    IF worker.message.chain = "bitcoin" THEN queryBtcBalance(worker.transport[n])
    ELSE queryEthBalance(worker.transport[n])

Loaded ==
    /\ worker.message.queryBalances
    /\ \E n \in 1..Len(worker.transport) :
           ~BalanceOfValid(n).threw /\ BalanceOfValid(n).value > 0

\* processing throws: the balances are asked for and a request throws
ProcessingThrows ==
    /\ ~Matched
    /\ worker.message.queryBalances
    /\ \E n \in 1..Len(worker.transport) : BalanceOfValid(n).threw

\* C31: the reply of the worker to a process_chunk message is 'error' only
\* when processing throws; when it does not throw, the reply is 'match_found'
\* exactly when publicKey is set and a valid tuple of the chunk derives it
\* (also at position 0 of the valid list), with the first such address and
\* tuple; otherwise 'loaded_wallet_found' exactly when queryBalances is set
\* and an address has a balance > 0; otherwise 'chunk_complete'.
C31_ReplyType ==
    worker.phase = "replied" =>
        /\ worker.reply.type = "error" => ProcessingThrows
        /\ ~ProcessingThrows =>
               /\ worker.reply.type = "match_found" <=> Matched
               /\ Matched =>
                      LET first == CHOOSE n \in MatchingValid : \A k \in MatchingValid : n <= k
                      IN  /\ worker.reply.addresses = <<AddressOfValid(first)>>
                          /\ worker.reply.combinations = <<ValidTuples[first]>>
               /\ worker.reply.type = "loaded_wallet_found" <=> (~Matched /\ Loaded)
               /\ worker.reply.type = "chunk_complete" <=> (~Matched /\ ~Loaded)

\* a match at position 0 of the valid list, behind a tuple that derives
\* nothing, in a message that also asks for the balances
C31_Witness ==
    /\ worker.phase = "replied"
    /\ worker.reply.type = "match_found"
    /\ 1 \in MatchingValid
    /\ Len(ValidTuples) < Len(worker.message.combinationsChunk)
    /\ worker.message.queryBalances

\* the address a chain derives from the phrase assembled with a combination
DerivedAddress(combination) ==
    PossibleAddress(worker.message.chain,
                    getFullMnemonicFromCandidates(worker.message.partialWithCandidates,
                                                  combination))

\* C37: the two outputs of createPossibleAddressesAndCombinations have the
\* same length, combinationChunks is the valid tuples of the input in their
\* order, and the address at i is the one derived from the phrase assembled
\* with the combination at i; the combination a worker reports with a match
\* is the one that derives the matching address.
C37_OutputsAligned ==
    worker.phase \in {"querying", "replied"} =>
        /\ Len(worker.addressChunks) = Len(worker.combinationChunks)
        /\ worker.combinationChunks = ValidTuples
        /\ \A i \in 1..Len(worker.combinationChunks) :
               /\ i <= Len(worker.addressChunks)
               /\ worker.addressChunks[i] = DerivedAddress(worker.combinationChunks[i])
        /\ (worker.phase = "replied" /\ worker.reply.type = "match_found") =>
               /\ worker.reply.addresses = <<DerivedAddress(worker.reply.combinations[1])>>
               /\ IsPublicKeyOf(worker.reply.addresses[1], worker.message.publicKey)

\* a match is reported from a chunk whose first tuple derives nothing
C37_Witness ==
    /\ worker.phase = "replied"
    /\ worker.reply.type = "match_found"
    /\ Len(worker.message.combinationsChunk) > 1
    /\ getFullMnemonicFromCandidates(worker.message.partialWithCandidates,
                                     worker.message.combinationsChunk[1])
           \in worker.underivable
    /\ Len(worker.addressChunks) > 0

=============================================================================
